---- MODULE Spec2Model ----
(***************************************************************************)
(* Model of project_analyzer: the generic line classifier, the Python and  *)
(* Markdown analyzers, the FileStats / DirectoryStats data model and the   *)
(* ProjectAnalyzer tree walker.                                            *)
(*                                                                         *)
(* Text is modelled as sequences of one-character strings, so that         *)
(* str.strip, str.startswith, "in" and Path.suffix are computed and not    *)
(* assumed.                                                                *)
(***************************************************************************)
EXTENDS Integers, Sequences, FiniteSets, TLC

(***************************************************************************)
(* Bounds of the model.                                                    *)
(***************************************************************************)
\* longest file content, in lines, given to an analyzer
MaxLines == 3
\* most FileStats in a DirectoryStats tree built by hand
MaxFiles == 3
\* most DirectoryStats nodes in a tree built by hand
MaxDirs == 3

(***************************************************************************)
(* Python string primitives.                                               *)
(***************************************************************************)
\* the byte 0xA0, which is not UTF-8 text on its own
ByteA0 == "0xA0"

\* the character U+00A0, which is what latin-1 decodes the byte 0xA0 to
NoBreakSpace == "U+00A0"

\* characters str.strip() removes (the ones that occur in the model's text)
Whitespace == {" ", "\t", "\n", "\r", NoBreakSpace}

\* the character ` (a string cannot hold it)
BackTick == "backtick"

RECURSIVE LStrip(_)
\* str.lstrip()
LStrip(s) ==
    IF s = <<>> THEN s
    ELSE IF Head(s) \in Whitespace THEN LStrip(Tail(s)) ELSE s

RECURSIVE RStrip(_)
\* str.rstrip()
RStrip(s) ==
    IF s = <<>> THEN s
    ELSE IF s[Len(s)] \in Whitespace THEN RStrip(SubSeq(s, 1, Len(s) - 1)) ELSE s

\* str.strip()
Strip(s) == RStrip(LStrip(s))

\* s.startswith(p)
StartsWith(s, p) == Len(p) <= Len(s) /\ SubSeq(s, 1, Len(p)) = p

\* p in s
Contains(s, p) ==
    \E i \in 1..(Len(s) - Len(p) + 1) : SubSeq(s, i, i + Len(p) - 1) = p

\* str.lower() of one character
LowerChar(c) ==
    LET up == ( "A" :> "a" @@ "B" :> "b" @@ "C" :> "c" @@ "D" :> "d" @@ "E" :> "e" @@
                "F" :> "f" @@ "G" :> "g" @@ "H" :> "h" @@ "I" :> "i" @@ "J" :> "j" @@
                "K" :> "k" @@ "L" :> "l" @@ "M" :> "m" @@ "N" :> "n" @@ "O" :> "o" @@
                "P" :> "p" @@ "Q" :> "q" @@ "R" :> "r" @@ "S" :> "s" @@ "T" :> "t" @@
                "U" :> "u" @@ "V" :> "v" @@ "W" :> "w" @@ "X" :> "x" @@ "Y" :> "y" @@
                "Z" :> "z" )
    IN IF c \in DOMAIN up THEN up[c] ELSE c

\* str.lower()
Lower(s) == [i \in 1..Len(s) |-> LowerChar(s[i])]

\* the indices of the dots of a file name
DotPositions(name) == {i \in 1..Len(name) : name[i] = "."}

\* Path.suffix: the text from the last dot on, unless that dot is the first
\* or the last character of the name
Suffix(name) ==
    IF DotPositions(name) = {} THEN <<>>
    ELSE LET i == CHOOSE k \in DotPositions(name) : \A j \in DotPositions(name) : j <= k
         IN IF 1 < i /\ i < Len(name) THEN SubSeq(name, i, Len(name)) ELSE <<>>

\* the last component of a path
Name(path) == path[Len(path)]

(***************************************************************************)
(* analyzers/language_config.py                                            *)
(***************************************************************************)
(***************************************************************************)
(* Python float: binary64, its values written mant * 2^exp with mant a     *)
(* natural number of MantissaBits bits, kept as its bits from the least    *)
(* significant one, and 0.0 written with no bits.                          *)
(***************************************************************************)
\* the bits of the significand of a binary64
MantissaBits == 53

RECURSIVE NatBits(_)
\* the bits of the natural number n, least significant first
NatBits(n) == IF n = 0 THEN <<>> ELSE <<n % 2>> \o NatBits(n \div 2)

RECURSIVE BitsTimes(_, _, _)
\* the bits of b * k + carry, for bits b and small naturals k and carry
BitsTimes(b, k, carry) ==
    IF b = <<>> THEN NatBits(carry)
    ELSE LET v == Head(b) * k + carry
         IN <<v % 2>> \o BitsTimes(Tail(b), k, v \div 2)

\* the bits of b * 2^s
BitsShift(b, s) == IF b = <<>> THEN <<>> ELSE [i \in 1..s |-> 0] \o b

RECURSIVE BitsTrim(_)
\* the bits b without leading zeros
BitsTrim(b) ==
    IF b = <<>> THEN <<>>
    ELSE IF b[Len(b)] = 0 THEN BitsTrim(SubSeq(b, 1, Len(b) - 1))
    ELSE b

\* a < b for two naturals given by their bits
BitsLess(a, b) ==
    IF Len(a) # Len(b) THEN Len(a) < Len(b)
    ELSE \E i \in 1..Len(a) :
            /\ a[i] < b[i]
            /\ \A j \in (i + 1)..Len(a) : a[j] = b[j]

RECURSIVE BitsMinusFrom(_, _, _)
\* the bits, leading zeros included, of a - b - borrow for a >= b + borrow
BitsMinusFrom(a, b, borrow) ==
    IF a = <<>> THEN <<>>
    ELSE LET v == Head(a) - (IF b = <<>> THEN 0 ELSE Head(b)) - borrow
         IN <<v % 2>> \o
            BitsMinusFrom(Tail(a), IF b = <<>> THEN <<>> ELSE Tail(b),
                          IF v < 0 THEN 1 ELSE 0)

\* the bits of |a - b|
BitsDistance(a, b) ==
    IF BitsLess(a, b) THEN BitsTrim(BitsMinusFrom(b, a, 0))
    ELSE BitsTrim(BitsMinusFrom(a, b, 0))

RECURSIVE BitsPlusOne(_)
\* the bits of b + 1
BitsPlusOne(b) ==
    IF b = <<>> THEN <<1>>
    ELSE IF Head(b) = 0 THEN <<1>> \o Tail(b)
    ELSE <<0>> \o BitsPlusOne(Tail(b))

\* 0.0
FloatZero == [mant |-> <<>>, exp |-> 0]

\* the float nearest to bits * 2^exp, ties to the even significand, for bits
\* that are at least MantissaBits long
FloatRound(bits, exp, inexact_below) ==
    LET n      == Len(bits)
        d      == n - MantissaBits
        kept   == SubSeq(bits, d + 1, n)
        guard  == IF d = 0 THEN 0 ELSE bits[d]
        sticky == inexact_below \/ \E i \in 1..(d - 1) : bits[i] = 1
        up     == guard = 1 /\ (sticky \/ kept[1] = 1)
        more   == IF up THEN BitsPlusOne(kept) ELSE kept
    IN IF Len(more) > MantissaBits
       THEN [mant |-> Tail(more), exp |-> exp + d + 1]
       ELSE [mant |-> more, exp |-> exp + d]

RECURSIVE RatioBits(_, _, _)
\* the remainder left after the first n bits after the point of r / t, for
\* r < t, and then those bits, the last one first
RatioBits(r, t, n) ==
    IF n = 0 THEN <<r>>
    ELSE LET d == 2 * r
         IN IF d >= t THEN Append(RatioBits(d - t, t, n - 1), 1)
            ELSE Append(RatioBits(d, t, n - 1), 0)

RECURSIVE LeadingZeros(_, _)
\* the zeros between the point and the first 1 of r / t, for 0 < r < t
LeadingZeros(r, t) == IF 2 * r >= t THEN 0 ELSE 1 + LeadingZeros(2 * r, t)

\* p / t for two ints, p >= 0 and t > 0: the float nearest to the quotient
FloatOfRatio(p, t) ==
    IF p = 0 THEN FloatZero
    ELSE LET whole  == NatBits(p \div t)
             r      == p % t
             places == IF whole # <<>> THEN MantissaBits + 1 - Len(whole)
                       ELSE LeadingZeros(r, t) + MantissaBits + 1
             out    == RatioBits(r, t, places)
         IN FloatRound(BitsTrim(Tail(out) \o whole), -places, Head(out) # 0)

\* x * k for a float x and an int k >= 0
FloatTimesInt(x, k) ==
    IF x = FloatZero \/ k = 0 THEN FloatZero
    ELSE FloatRound(BitsTimes(x.mant, k, 0), x.exp, FALSE)

\* CommentStyle: member name -> value
CommentStyle ==
    [ DOUBLE_SLASH |-> <<"/", "/">>,
      HASH         |-> <<"#">>,
      DOUBLE_DASH  |-> <<"-", "-">>,
      C_MULTILINE  |-> <<"/", "*", " ", "*", "/">>,
      HTML         |-> <<"<", "!", "-", "-", " ", "-", "-", ">">> ]

COMMENT_SYNTAX ==
    [ c_style |->
        [ languages   |-> {"JavaScript", "TypeScript", "C", "C++", "C#", "Java",
                           "Kotlin", "Scala", "Go", "Rust", "Swift", "Dart", "PHP", "Groovy"},
          single_line |-> {CommentStyle.DOUBLE_SLASH},
          multi_line  |-> {CommentStyle.C_MULTILINE} ],
      hash_style |->
        [ languages   |-> {"Python", "Ruby", "Shell", "Bash", "Zsh", "Fish",
                           "Perl", "R", "YAML", "TOML", "Elixir"},
          single_line |-> {CommentStyle.HASH},
          multi_line  |-> {} ],
      dash_style |->
        [ languages   |-> {"SQL", "Lua", "Haskell"},
          single_line |-> {CommentStyle.DOUBLE_DASH},
          multi_line  |-> {} ],
      markup_style |->
        [ languages   |-> {"HTML", "XML"},
          single_line |-> {},
          multi_line  |-> {CommentStyle.HTML} ],
      css_style |->
        [ languages   |-> {"CSS", "SCSS", "Sass", "Less"},
          single_line |-> {},
          multi_line  |-> {CommentStyle.C_MULTILINE} ] ]

\* extension -> language
LANGUAGE_MAP ==
       <<".", "j", "s">> :> "JavaScript" @@
       <<".", "j", "s", "x">> :> "JavaScript" @@
       <<".", "t", "s">> :> "TypeScript" @@
       <<".", "t", "s", "x">> :> "TypeScript" @@
       <<".", "m", "j", "s">> :> "JavaScript" @@
       <<".", "c", "j", "s">> :> "JavaScript" @@
       <<".", "h", "t", "m", "l">> :> "HTML" @@
       <<".", "h", "t", "m">> :> "HTML" @@
       <<".", "c", "s", "s">> :> "CSS" @@
       <<".", "s", "c", "s", "s">> :> "SCSS" @@
       <<".", "s", "a", "s", "s">> :> "Sass" @@
       <<".", "l", "e", "s", "s">> :> "Less" @@
       <<".", "c">> :> "C" @@
       <<".", "h">> :> "C" @@
       <<".", "c", "p", "p">> :> "C++" @@
       <<".", "c", "c">> :> "C++" @@
       <<".", "c", "x", "x">> :> "C++" @@
       <<".", "h", "p", "p">> :> "C++" @@
       <<".", "h", "h">> :> "C++" @@
       <<".", "h", "x", "x">> :> "C++" @@
       <<".", "c", "s">> :> "C#" @@
       <<".", "j", "a", "v", "a">> :> "Java" @@
       <<".", "k", "t">> :> "Kotlin" @@
       <<".", "k", "t", "s">> :> "Kotlin" @@
       <<".", "s", "c", "a", "l", "a">> :> "Scala" @@
       <<".", "g", "r", "o", "o", "v", "y">> :> "Groovy" @@
       <<".", "g", "o">> :> "Go" @@
       <<".", "r", "s">> :> "Rust" @@
       <<".", "s", "w", "i", "f", "t">> :> "Swift" @@
       <<".", "r", "b">> :> "Ruby" @@
       <<".", "p", "h", "p">> :> "PHP" @@
       <<".", "p", "l">> :> "Perl" @@
       <<".", "l", "u", "a">> :> "Lua" @@
       <<".", "s", "h">> :> "Shell" @@
       <<".", "b", "a", "s", "h">> :> "Bash" @@
       <<".", "z", "s", "h">> :> "Zsh" @@
       <<".", "f", "i", "s", "h">> :> "Fish" @@
       <<".", "s", "q", "l">> :> "SQL" @@
       <<".", "j", "s", "o", "n">> :> "JSON" @@
       <<".", "y", "a", "m", "l">> :> "YAML" @@
       <<".", "y", "m", "l">> :> "YAML" @@
       <<".", "x", "m", "l">> :> "XML" @@
       <<".", "t", "o", "m", "l">> :> "TOML" @@
       <<".", "r">> :> "R" @@
       <<".", "R">> :> "R" @@
       <<".", "m">> :> "Objective-C" @@
       <<".", "m", "m">> :> "Objective-C++" @@
       <<".", "d", "a", "r", "t">> :> "Dart" @@
       <<".", "e", "x">> :> "Elixir" @@
       <<".", "e", "x", "s">> :> "Elixir" @@
       <<".", "e", "r", "l">> :> "Erlang" @@
       <<".", "h", "r", "l">> :> "Erlang" @@
       <<".", "h", "s">> :> "Haskell" @@
       <<".", "l", "h", "s">> :> "Haskell" @@
       <<".", "v", "i", "m">> :> "VimScript" @@
       <<".", "e", "l">> :> "EmacsLisp" @@
       <<".", "c", "l", "j">> :> "Clojure" @@
       <<".", "c", "l", "j", "s">> :> "ClojureScript" @@
       <<".", "l", "i", "s", "p">> :> "CommonLisp" @@
       <<".", "s", "c", "m">> :> "Scheme"

\* LANGUAGE_MAP.get(ext, "Unknown")
LanguageOfExtension(ext) ==
    IF ext \in DOMAIN LANGUAGE_MAP THEN LANGUAGE_MAP[ext] ELSE "Unknown"

\* a language without style gets the markers of the C style
LanguageToConfigDefaultC(language) ==
    LET styles == {s \in DOMAIN COMMENT_SYNTAX : language \in COMMENT_SYNTAX[s].languages}
        s      == IF styles = {} THEN "c_style" ELSE CHOOSE t \in styles : TRUE
    IN [single_line |-> COMMENT_SYNTAX[s].single_line,
        multi_line  |-> COMMENT_SYNTAX[s].multi_line]

\* LanguageConfig._language_to_config.get(language, {}): the single_line and
\* multi_line sets of the style that lists the language, both empty when no
\* style lists it
LanguageToConfig(language) ==
    LET styles == {s \in DOMAIN COMMENT_SYNTAX : language \in COMMENT_SYNTAX[s].languages}
    IN IF styles = {} THEN [single_line |-> {}, multi_line |-> {}]
       ELSE LET s == CHOOSE t \in styles : TRUE
            IN [single_line |-> COMMENT_SYNTAX[s].single_line,
                multi_line  |-> COMMENT_SYNTAX[s].multi_line]

get_single_line_markers(language) == LanguageToConfig(language).single_line

get_multi_line_markers(language) == LanguageToConfig(language).multi_line

supports_multi_line_comments(language) ==
    Cardinality(get_multi_line_markers(language)) > 0

\* the marker looked for anywhere in the line
is_comment_anywhere(line, language) ==
    \E marker \in get_single_line_markers(language) : Contains(line, marker)

\* line is already stripped
is_comment_start(line, language) ==
    \E marker \in get_single_line_markers(language) : StartsWith(line, marker)

\* the markers of the language whose start token occurs in the line
MatchingMultiLine(line, language) ==
    {marker \in get_multi_line_markers(language) :
        \/ marker = CommentStyle.C_MULTILINE /\ Contains(line, <<"/", "*">>)
        \/ marker = CommentStyle.HTML /\ Contains(line, <<"<", "!", "-", "-">>)}

\* (has_start, end_marker)
has_multiline_start(line, language) ==
    IF MatchingMultiLine(line, language) = {}
    THEN [has_start |-> FALSE, end_marker |-> <<>>]
    ELSE LET marker == CHOOSE m \in MatchingMultiLine(line, language) : TRUE
         IN [has_start  |-> TRUE,
             end_marker |-> IF marker = CommentStyle.C_MULTILINE
                            THEN <<"*", "/">> ELSE <<"-", "-", ">">>]

\* the end marker looked for at the end of the line only
has_multiline_end_at_end(line, end_marker) ==
    IF end_marker # <<>>
    THEN /\ Len(end_marker) <= Len(line)
         /\ SubSeq(line, Len(line) - Len(end_marker) + 1, Len(line)) = end_marker
    ELSE FALSE

has_multiline_end(line, end_marker) ==
    IF end_marker # <<>> THEN Contains(line, end_marker) ELSE FALSE

(***************************************************************************)
(* models.py: FileStats                                                    *)
(***************************************************************************)
\* Optional fields: <<>> is None, <<v>> is the value v
None == <<>>

Some(v) == <<v>>

FileStats(path, total, code, comment, blank, language, has_doc, n_classes, n_functions) ==
    [ path          |-> path,
      total_lines   |-> total,
      code_lines    |-> code,
      comment_lines |-> comment,
      blank_lines   |-> blank,
      language      |-> language,
      has_docstring |-> has_doc,
      num_classes   |-> n_classes,
      num_functions |-> n_functions ]

(***************************************************************************)
(* analyzers/base.py                                                       *)
(***************************************************************************)
\* what open() can do to _count_lines: nothing; fail at the first open
\* (missing file, permission); fail at the open of the retry, if one is made
ReadOutcomes == {"ok", "error", "retry_error"}

\* the bytes decode as UTF-8
ValidUtf8(content) ==
    \A i \in 1..Len(content) : \A j \in 1..Len(content[i]) : content[i][j] # ByteA0

\* the lines the bytes are when read as latin-1
decode_latin1(content) ==
    [i \in 1..Len(content) |->
        [j \in 1..Len(content[i]) |->
            IF content[i][j] = ByteA0 THEN NoBreakSpace ELSE content[i][j]]]

\* sum(1 for line in lines if line.strip() == '')
CountBlank(ls) == Cardinality({i \in 1..Len(ls) : Strip(ls[i]) = <<>>})

\* what _count_lines returns for the list of lines it read; with it, the
\* encodings it opened the file with and whether the last open failed
counted_lines(ls, opened, failed) ==
    [total_lines |-> Len(ls), blank_lines |-> CountBlank(ls), lines |-> ls,
     opened |-> opened, failed |-> failed]

\* _count_lines that retries as latin-1 after any failure of the first read
count_lines_retries_always(content, outcome) ==
    IF outcome = "error"
    THEN counted_lines(decode_latin1(content), <<"utf-8", "latin-1">>, FALSE)
    ELSE IF ValidUtf8(content) THEN counted_lines(content, <<"utf-8">>, FALSE)
    ELSE IF outcome = "retry_error"
    THEN counted_lines(<<>>, <<"utf-8", "latin-1">>, TRUE)
    ELSE counted_lines(decode_latin1(content), <<"utf-8", "latin-1">>, FALSE)

\* BaseAnalyzer._count_lines: (total_lines, blank_lines, lines)
count_lines(content, outcome) ==
    IF outcome = "error" THEN counted_lines(<<>>, <<"utf-8">>, TRUE)
    ELSE IF ValidUtf8(content) THEN counted_lines(content, <<"utf-8">>, FALSE)
    ELSE IF outcome = "retry_error"
    THEN counted_lines(<<>>, <<"utf-8", "latin-1">>, TRUE)
    ELSE counted_lines(decode_latin1(content), <<"utf-8", "latin-1">>, FALSE)

\* BaseAnalyzer.can_analyze
can_analyze(supported_extensions, file_path) ==
    Lower(Suffix(Name(file_path))) \in supported_extensions

(***************************************************************************)
(* analyzers/generic.py                                                    *)
(***************************************************************************)
GenericExtensions == DOMAIN LANGUAGE_MAP

\* GenericAnalyzer._get_language_for_file
get_language_for_file(file_path) == LanguageOfExtension(Lower(Suffix(Name(file_path))))

\* the scanner state at the first line of a file
ScanStart ==
    [ comment_lines        |-> 0,
      in_multiline_comment |-> FALSE,
      multiline_end_marker |-> <<>> ]

\* the loop without the test for an end marker on the line that opens a
\* comment: every start marker enters the comment
ScanLineAlwaysEnters(st, line, language) ==
    LET stripped == Strip(line)
        start    == has_multiline_start(stripped, language)
    IN IF stripped = <<>> THEN st
       ELSE IF supports_multi_line_comments(language) /\ st.in_multiline_comment
       THEN IF has_multiline_end(stripped, st.multiline_end_marker)
            THEN [ comment_lines        |-> st.comment_lines + 1,
                   in_multiline_comment |-> FALSE,
                   multiline_end_marker |-> <<>> ]
            ELSE [st EXCEPT !.comment_lines = @ + 1]
       ELSE IF supports_multi_line_comments(language) /\ start.has_start
       THEN [ comment_lines        |-> st.comment_lines + 1,
              in_multiline_comment |-> TRUE,
              multiline_end_marker |-> start.end_marker ]
       ELSE IF is_comment_start(stripped, language)
       THEN [st EXCEPT !.comment_lines = @ + 1]
       ELSE st

\* the loop with the reset of the state outside the test for the end
\* marker: the first line inside a comment leaves it
ScanLineLeavesAtOnce(st, line, language) ==
    LET stripped == Strip(line)
        start    == has_multiline_start(stripped, language)
    IN IF stripped = <<>> THEN st
       ELSE IF supports_multi_line_comments(language) /\ st.in_multiline_comment
       THEN [ comment_lines        |-> st.comment_lines + 1,
              in_multiline_comment |-> FALSE,
              multiline_end_marker |-> <<>> ]
       ELSE IF supports_multi_line_comments(language) /\ start.has_start
       THEN IF ~has_multiline_end(stripped, start.end_marker)
            THEN [ comment_lines        |-> st.comment_lines + 1,
                   in_multiline_comment |-> TRUE,
                   multiline_end_marker |-> start.end_marker ]
            ELSE [st EXCEPT !.comment_lines = @ + 1]
       ELSE IF is_comment_start(stripped, language)
       THEN [st EXCEPT !.comment_lines = @ + 1]
       ELSE st

\* the loop with a same-line close test that looks for the end marker at
\* the end of the line only
ScanLineClosesAtEndOnly(st, line, language) ==
    LET stripped == Strip(line)
        start    == has_multiline_start(stripped, language)
    IN IF stripped = <<>> THEN st
       ELSE IF supports_multi_line_comments(language) /\ st.in_multiline_comment
       THEN IF has_multiline_end(stripped, st.multiline_end_marker)
            THEN [ comment_lines        |-> st.comment_lines + 1,
                   in_multiline_comment |-> FALSE,
                   multiline_end_marker |-> <<>> ]
            ELSE [st EXCEPT !.comment_lines = @ + 1]
       ELSE IF supports_multi_line_comments(language) /\ start.has_start
       THEN IF ~has_multiline_end_at_end(stripped, start.end_marker)
            THEN [ comment_lines        |-> st.comment_lines + 1,
                   in_multiline_comment |-> TRUE,
                   multiline_end_marker |-> start.end_marker ]
            ELSE [st EXCEPT !.comment_lines = @ + 1]
       ELSE IF is_comment_start(stripped, language)
       THEN [st EXCEPT !.comment_lines = @ + 1]
       ELSE st

\* the loop with the single-line test made before the multi-line start test
ScanLineSingleLineFirst(st, line, language) ==
    LET stripped == Strip(line)
        start    == has_multiline_start(stripped, language)
    IN IF stripped = <<>> THEN st
       ELSE IF supports_multi_line_comments(language) /\ st.in_multiline_comment
       THEN IF has_multiline_end(stripped, st.multiline_end_marker)
            THEN [ comment_lines        |-> st.comment_lines + 1,
                   in_multiline_comment |-> FALSE,
                   multiline_end_marker |-> <<>> ]
            ELSE [st EXCEPT !.comment_lines = @ + 1]
       ELSE IF is_comment_start(stripped, language)
       THEN [st EXCEPT !.comment_lines = @ + 1]
       ELSE IF supports_multi_line_comments(language) /\ start.has_start
       THEN IF ~has_multiline_end(stripped, start.end_marker)
            THEN [ comment_lines        |-> st.comment_lines + 1,
                   in_multiline_comment |-> TRUE,
                   multiline_end_marker |-> start.end_marker ]
            ELSE [st EXCEPT !.comment_lines = @ + 1]
       ELSE st

\* the loop without the skip of the blank lines: inside a comment a blank
\* line is counted as a comment line
ScanLineCountsBlankInside(st, line, language) ==
    LET stripped == Strip(line)
        start    == has_multiline_start(stripped, language)
    IN IF stripped = <<>> /\ ~st.in_multiline_comment THEN st
       ELSE IF supports_multi_line_comments(language) /\ st.in_multiline_comment
       THEN IF has_multiline_end(stripped, st.multiline_end_marker)
            THEN [ comment_lines        |-> st.comment_lines + 1,
                   in_multiline_comment |-> FALSE,
                   multiline_end_marker |-> <<>> ]
            ELSE [st EXCEPT !.comment_lines = @ + 1]
       ELSE IF supports_multi_line_comments(language) /\ start.has_start
       THEN IF ~has_multiline_end(stripped, start.end_marker)
            THEN [ comment_lines        |-> st.comment_lines + 1,
                   in_multiline_comment |-> TRUE,
                   multiline_end_marker |-> start.end_marker ]
            ELSE [st EXCEPT !.comment_lines = @ + 1]
       ELSE IF is_comment_start(stripped, language)
       THEN [st EXCEPT !.comment_lines = @ + 1]
       ELSE st

\* one iteration of the loop of GenericAnalyzer.analyze over a raw line
ScanLine(st, line, language) ==
    LET stripped == Strip(line)
        start    == has_multiline_start(stripped, language)
    IN IF stripped = <<>> THEN st
       ELSE IF supports_multi_line_comments(language) /\ st.in_multiline_comment
       THEN IF has_multiline_end(stripped, st.multiline_end_marker)
            THEN [ comment_lines        |-> st.comment_lines + 1,
                   in_multiline_comment |-> FALSE,
                   multiline_end_marker |-> <<>> ]
            ELSE [st EXCEPT !.comment_lines = @ + 1]
       ELSE IF supports_multi_line_comments(language) /\ start.has_start
       THEN IF ~has_multiline_end(stripped, start.end_marker)
            THEN [ comment_lines        |-> st.comment_lines + 1,
                   in_multiline_comment |-> TRUE,
                   multiline_end_marker |-> start.end_marker ]
            ELSE [st EXCEPT !.comment_lines = @ + 1]
       ELSE IF is_comment_start(stripped, language)
       THEN [st EXCEPT !.comment_lines = @ + 1]
       ELSE st

RECURSIVE ScanLines(_, _, _)
\* the whole loop: the scanner state after the lines ls
ScanLines(st, ls, language) ==
    IF ls = <<>> THEN st
    ELSE ScanLines(ScanLine(st, Head(ls), language), Tail(ls), language)

\* GenericAnalyzer.analyze on a file of that path and content
GenericAnalyze(file_path, content, outcome) ==
    LET language == get_language_for_file(file_path)
        counted  == count_lines(content, outcome)
        comment  == ScanLines(ScanStart, counted.lines, language).comment_lines
    IN IF counted.total_lines = 0
       THEN FileStats(file_path, 0, 0, 0, 0, language, None, None, None)
       ELSE FileStats(file_path, counted.total_lines,
                      counted.total_lines - counted.blank_lines - comment,
                      comment, counted.blank_lines, language, None, None, None)

(***************************************************************************)
(* analyzers/python.py                                                     *)
(***************************************************************************)
PythonExtensions == {<<".", "p", "y">>, <<".", "p", "y", "w">>, <<".", "p", "y", "i">>}

\* the statement a line of the Python text of the model is. The statements
\* of that text are simple statements and one-line compound statements, each
\* on a line of its own: a line that is blank or a comment holds none, one
\* that starts with white space is indented where no block is open, and the
\* others are a class, a function, a string or another expression
PythonStatement(line) ==
    LET stripped == Strip(line)
    IN IF stripped = <<>> \/ StartsWith(stripped, <<"#">>) THEN "none"
       ELSE IF line[1] \in {" ", "\t"} THEN "indented"
       ELSE IF StartsWith(line, <<"c", "l", "a", "s", "s", " ">>) THEN "class"
       ELSE IF \/ StartsWith(line, <<"d", "e", "f", " ">>)
               \/ StartsWith(line, <<"a", "s", "y", "n", "c", " ", "d", "e", "f", " ">>)
       THEN "function"
       ELSE IF line[1] = "\"" THEN "string"
       ELSE "expression"

\* the try block of _extract_ast_info once the file is open: read() of the
\* text as UTF-8, ast.parse, ast.get_docstring and the walk of the tree that
\* counts the ClassDef and the FunctionDef and AsyncFunctionDef nodes
ast_parse(content) ==
    LET statements == [i \in 1..Len(content) |-> PythonStatement(content[i])]
        holding    == {i \in 1..Len(content) : statements[i] # "none"}
    IN IF ~ValidUtf8(content) THEN [kind |-> "UnicodeDecodeError"]
       ELSE IF \E i \in holding : statements[i] = "indented"
       THEN [kind |-> "SyntaxError"]
       ELSE [ kind          |-> "ok",
              has_docstring |-> \E i \in holding :
                                   /\ statements[i] = "string"
                                   /\ \A j \in holding : i <= j,
              num_classes   |-> Cardinality({i \in holding : statements[i] = "class"}),
              num_functions |-> Cardinality({i \in holding :
                                               statements[i] = "function"}) ]

\* what the try block of _extract_ast_info can do on the file: what the text
\* makes of it, or an exception because the file could not be opened
AstOutcomes(content) == {ast_parse(content), [kind |-> "Exception"]}

\* _extract_ast_info that keeps the classes counted when the failure is not
\* one of the two it names
extract_ast_info_keeps_counts(ast) ==
    IF ast.kind = "ok"
    THEN [has_docstring |-> ast.has_docstring,
          num_classes   |-> ast.num_classes,
          num_functions |-> ast.num_functions]
    ELSE IF ast.kind \in {"SyntaxError", "UnicodeDecodeError"}
    THEN [has_docstring |-> FALSE, num_classes |-> 0, num_functions |-> 0]
    ELSE [has_docstring |-> FALSE, num_classes |-> 1, num_functions |-> 0]

\* PythonAnalyzer._extract_ast_info: (has_docstring, num_classes, num_functions)
extract_ast_info(ast) ==
    IF ast.kind = "ok"
    THEN [has_docstring |-> ast.has_docstring,
          num_classes   |-> ast.num_classes,
          num_functions |-> ast.num_functions]
    ELSE [has_docstring |-> FALSE, num_classes |-> 0, num_functions |-> 0]

\* what tokenizing the file can do
TokenizeOutcomes == {"ok", "TokenError", "UnicodeDecodeError", "Exception"}

\* the lines that hold a COMMENT token: no string literal of the text of the
\* model holds a #, so every # starts a comment
TokenCommentLines(content) == {i \in 1..Len(content) : Contains(content[i], <<"#">>)}

\* PythonAnalyzer._count_comment_lines_simple; reading is the open() of the
\* fallback, which fails or not
count_comment_lines_simple(content, reading) ==
    IF reading = "error" THEN 0
    ELSE Cardinality({i \in 1..Len(content) : StartsWith(Strip(content[i]), <<"#">>)})

\* PythonAnalyzer._count_comment_lines
count_comment_lines(content, tokenizing, reading) ==
    CASE tokenizing = "ok" -> Cardinality(TokenCommentLines(content))
      [] tokenizing \in {"TokenError", "UnicodeDecodeError"} ->
            count_comment_lines_simple(content, reading)
      [] OTHER -> 0

\* the end of PythonAnalyzer.analyze: code_lines and the FileStats
PythonStats(file_path, total, blank, comment, info) ==
    LET code == total - blank - comment
    IN FileStats(file_path, total, IF code < 0 THEN 0 ELSE code, comment, blank, "Python",
                 Some(info.has_docstring), Some(info.num_classes), Some(info.num_functions))

\* PythonAnalyzer.analyze on a file whose content stays the same from one
\* read to the next
PythonAnalyze(file_path, content, outcome, ast, tokenizing, reading) ==
    LET counted == count_lines(content, outcome)
    IN IF counted.total_lines = 0
       THEN FileStats(file_path, 0, 0, 0, 0, "Python", Some(FALSE), Some(0), Some(0))
       ELSE PythonStats(file_path, counted.total_lines, counted.blank_lines,
                        count_comment_lines(content, tokenizing, reading),
                        extract_ast_info(ast))

(***************************************************************************)
(* analyzers/markdown.py                                                   *)
(***************************************************************************)
MarkdownExtensions == {<<".", "m", "d">>, <<".", "m", "a", "r", "k", "d", "o", "w", "n">>}

\* a line whose stripped text starts with ```
IsFence(line) == StartsWith(Strip(line), <<BackTick, BackTick, BackTick>>)

\* the fence state at the first line of a file
FenceStart == [in_fenced_code |-> FALSE, code_block_count |-> 0]

\* FenceLine that counts every fence line, the closing ones too
FenceLineCountsEveryFence(st, line) ==
    IF IsFence(line)
    THEN [in_fenced_code |-> ~st.in_fenced_code, code_block_count |-> st.code_block_count + 1]
    ELSE st

\* the fence handling of one iteration of the loop of MarkdownAnalyzer.analyze
FenceLine(st, line) ==
    IF IsFence(line)
    THEN IF ~st.in_fenced_code
         THEN [in_fenced_code |-> TRUE, code_block_count |-> st.code_block_count + 1]
         ELSE [st EXCEPT !.in_fenced_code = FALSE]
    ELSE st

RECURSIVE RStripNewlines(_)
\* raw.rstrip('\n')
RStripNewlines(s) ==
    IF s # <<>> /\ s[Len(s)] = "\n" THEN RStripNewlines(SubSeq(s, 1, Len(s) - 1)) ELSE s

\* the first place of the character c in s at or after i, or 0
IndexFrom(s, c, i) ==
    LET found == {j \in i..Len(s) : s[j] = c}
    IN IF found = {} THEN 0 ELSE CHOOSE j \in found : \A k \in found : j <= k

\* re_heading = ^\s*(#{1,6})\s+ : the length of group 1 of the match, or 0
HeadingLevel(line) ==
    LET body   == LStrip(line)
        others == {j \in 1..Len(body) : body[j] # "#"}
        hashes == IF others = {} THEN Len(body)
                  ELSE (CHOOSE j \in others : \A k \in others : j <= k) - 1
    IN IF hashes \in 1..6 /\ Len(body) > hashes /\ body[hashes + 1] \in Whitespace
       THEN hashes ELSE 0

\* the rest of both patterns from the first ] at or after i: \]\([^\)]+\) ;
\* where the match ends, or 0
TargetEnd(line, i) ==
    LET close == IndexFrom(line, "]", i)
    IN IF /\ close # 0
          /\ close + 2 <= Len(line)
          /\ line[close + 1] = "("
          /\ line[close + 2] # ")"
       THEN IndexFrom(line, ")", close + 3)
       ELSE 0

\* re_image = !\[[^\]]*\]\([^\)]+\) : where the match that starts at i ends,
\* or 0
ImageEnd(line, i) ==
    IF i + 1 <= Len(line) /\ line[i] = "!" /\ line[i + 1] = "["
    THEN TargetEnd(line, i + 2) ELSE 0

\* re_link = (?<!\!)\[[^\]]+\]\([^\)]+\) : where the match that starts at i
\* ends, or 0
LinkEnd(line, i) ==
    IF /\ i + 1 <= Len(line)
       /\ line[i] = "["
       /\ (i = 1 \/ line[i - 1] # "!")
       /\ line[i + 1] # "]"
    THEN TargetEnd(line, i + 2) ELSE 0

RECURSIVE CountImages(_, _)
\* len(re_image.findall(line)), from the place i on
CountImages(line, i) ==
    IF i > Len(line) THEN 0
    ELSE IF ImageEnd(line, i) # 0 THEN 1 + CountImages(line, ImageEnd(line, i) + 1)
    ELSE CountImages(line, i + 1)

RECURSIVE CountLinks(_, _)
\* len(re_link.findall(line)), from the place i on
CountLinks(line, i) ==
    IF i > Len(line) THEN 0
    ELSE IF LinkEnd(line, i) # 0 THEN 1 + CountLinks(line, LinkEnd(line, i) + 1)
    ELSE CountLinks(line, i + 1)

\* s.split(c)
Split(s, c) ==
    LET at     == {j \in 1..Len(s) : s[j] = c}
        cuts   == {0} \cup at \cup {Len(s) + 1}
        Nth(n) == CHOOSE j \in cuts : Cardinality({k \in cuts : k < j}) = n - 1
    IN [n \in 1..(Cardinality(at) + 1) |-> SubSeq(s, Nth(n) + 1, Nth(n + 1) - 1)]

\* \s*:?-+:?\s* matches the whole of the text
IsDividerCell(cell) ==
    LET c == Strip(cell)
        a == IF c # <<>> /\ c[1] = ":" THEN Tail(c) ELSE c
        b == IF a # <<>> /\ a[Len(a)] = ":" THEN SubSeq(a, 1, Len(a) - 1) ELSE a
    IN b # <<>> /\ \A k \in 1..Len(b) : b[k] = "-"

\* re_table_divider = ^\s*\|?\s*:?-+:?\s*(\|\s*:?-+:?\s*)+\|?\s*$ matches:
\* two cells or more between bars, with or without a bar at either end
IsTableDivider(s) ==
    LET parts == Split(s, "|")
        p1    == IF Len(parts) > 1 /\ Strip(parts[1]) = <<>> THEN Tail(parts) ELSE parts
        cells == IF Len(p1) > 1 /\ Strip(p1[Len(p1)]) = <<>>
                 THEN SubSeq(p1, 1, Len(p1) - 1) ELSE p1
    IN Len(cells) >= 2 /\ \A k \in 1..Len(cells) : IsDividerCell(cells[k])

\* the counters of MarkdownAnalyzer.analyze before the loop
CountsStart ==
    [ headings_by_level |-> [level \in 1..6 |-> 0],
      heading_lines     |-> 0,
      link_count        |-> 0,
      image_count       |-> 0,
      table_count       |-> 0 ]

\* the rest of an iteration of the loop of MarkdownAnalyzer.analyze, on a
\* line that is no fence and is outside a fenced block: ls[i]
CountLine(counts, ls, i) ==
    LET line  == RStripNewlines(ls[i])
        level == HeadingLevel(line)
    IN [ headings_by_level |-> IF level > 0
                               THEN [counts.headings_by_level EXCEPT ![level] = @ + 1]
                               ELSE counts.headings_by_level,
         heading_lines     |-> counts.heading_lines + (IF level > 0 THEN 1 ELSE 0),
         link_count        |-> counts.link_count + CountLinks(line, 1),
         image_count       |-> counts.image_count + CountImages(line, 1),
         table_count       |-> counts.table_count +
                               (IF /\ Contains(line, <<"|">>)
                                   /\ i + 1 <= Len(ls)
                                   /\ IsTableDivider(Strip(ls[i + 1]))
                                THEN 1 ELSE 0) ]

\* max(0, total_lines - blank_lines)
Max0(n) == IF n < 0 THEN 0 ELSE n

\* the FileStats MarkdownAnalyzer.analyze builds
MarkdownStats(file_path, total, blank) ==
    FileStats(file_path, total, Max0(total - blank), 0, blank, "Markdown", None, None, None)

(***************************************************************************)
(* models.py: DirectoryStats                                               *)
(***************************************************************************)
\* DirectoryStats(path): files and subdirectories start as empty lists
DirectoryStats(path) == [path |-> path, files |-> <<>>, subdirectories |-> <<>>]

RECURSIVE SumSeq(_)
\* sum() of a list of numbers
SumSeq(s) == IF s = <<>> THEN 0 ELSE Head(s) + SumSeq(Tail(s))

RECURSIVE total_files(_)
total_files(d) ==
    Len(d.files)
    + SumSeq([i \in 1..Len(d.subdirectories) |-> total_files(d.subdirectories[i])])

\* total_lines that stops at the files of the node itself
total_lines_direct(d) == SumSeq([i \in 1..Len(d.files) |-> d.files[i].total_lines])

RECURSIVE total_lines_of(_)
\* DirectoryStats.total_lines
total_lines_of(d) ==
    SumSeq([i \in 1..Len(d.files) |-> d.files[i].total_lines])
    + SumSeq([i \in 1..Len(d.subdirectories) |-> total_lines_of(d.subdirectories[i])])

RECURSIVE total_code_lines(_)
total_code_lines(d) ==
    SumSeq([i \in 1..Len(d.files) |-> d.files[i].code_lines])
    + SumSeq([i \in 1..Len(d.subdirectories) |-> total_code_lines(d.subdirectories[i])])

RECURSIVE total_comment_lines(_)
total_comment_lines(d) ==
    SumSeq([i \in 1..Len(d.files) |-> d.files[i].comment_lines])
    + SumSeq([i \in 1..Len(d.subdirectories) |-> total_comment_lines(d.subdirectories[i])])

RECURSIVE total_blank_lines(_)
total_blank_lines(d) ==
    SumSeq([i \in 1..Len(d.files) |-> d.files[i].blank_lines])
    + SumSeq([i \in 1..Len(d.subdirectories) |-> total_blank_lines(d.subdirectories[i])])

\* the five aggregate properties of a node, read one after the other
Aggregates(d) ==
    [ total_files         |-> total_files(d),
      total_lines         |-> total_lines_of(d),
      total_code_lines    |-> total_code_lines(d),
      total_comment_lines |-> total_comment_lines(d),
      total_blank_lines   |-> total_blank_lines(d) ]

\* FileStats.code_percentage
file_code_percentage(f) ==
    IF f.total_lines = 0 THEN FloatZero
    ELSE FloatTimesInt(FloatOfRatio(f.code_lines, f.total_lines), 100)

\* FileStats.comment_percentage
file_comment_percentage(f) ==
    IF f.total_lines = 0 THEN FloatZero
    ELSE FloatTimesInt(FloatOfRatio(f.comment_lines, f.total_lines), 100)

\* DirectoryStats.code_percentage
code_percentage(d) ==
    IF total_lines_of(d) = 0 THEN FloatZero
    ELSE FloatTimesInt(FloatOfRatio(total_code_lines(d), total_lines_of(d)), 100)

\* the fraction, not multiplied by 100
comment_percentage_as_fraction(d) ==
    IF total_lines_of(d) = 0 THEN FloatZero
    ELSE FloatOfRatio(total_comment_lines(d), total_lines_of(d))

\* DirectoryStats.comment_percentage
comment_percentage(d) ==
    IF total_lines_of(d) = 0 THEN FloatZero
    ELSE FloatTimesInt(FloatOfRatio(total_comment_lines(d), total_lines_of(d)), 100)

\* DirectoryStats.blank_percentage
blank_percentage(d) ==
    IF total_lines_of(d) = 0 THEN FloatZero
    ELSE FloatTimesInt(FloatOfRatio(total_blank_lines(d), total_lines_of(d)), 100)

\* f goes before the files of its size: a sort that turns equal files round
InsertBeforeEqual(sorted, f) ==
    LET ahead == {i \in 1..Len(sorted) : sorted[i].total_lines > f.total_lines}
        k     == Cardinality(ahead)
    IN SubSeq(sorted, 1, k) \o <<f>> \o SubSeq(sorted, k + 1, Len(sorted))

\* a sorted list with one more file: f goes behind every file that is not
\* smaller, so files of equal size keep their order
InsertBySize(sorted, f) ==
    LET ahead == {i \in 1..Len(sorted) : sorted[i].total_lines >= f.total_lines}
        k     == Cardinality(ahead)
    IN SubSeq(sorted, 1, k) \o <<f>> \o SubSeq(sorted, k + 1, Len(sorted))

RECURSIVE SortBySize(_, _)
\* list.sort(key=lambda f: f.total_lines, reverse=True): fs sorted into done
SortBySize(done, fs) ==
    IF fs = <<>> THEN done
    ELSE SortBySize(InsertBySize(done, Head(fs)), Tail(fs))

RECURSIVE sort_files_by_size(_)
sort_files_by_size(d) ==
    [ path           |-> d.path,
      files          |-> SortBySize(<<>>, d.files),
      subdirectories |-> [i \in 1..Len(d.subdirectories) |->
                             sort_files_by_size(d.subdirectories[i])] ]

(***************************************************************************)
(* Access to the nodes of a tree: a node is named by the list of indices   *)
(* that leads to it from the root through the subdirectories lists.        *)
(***************************************************************************)
RECURSIVE Paths(_)
\* the nodes of the tree d
Paths(d) ==
    {<<>>} \cup UNION { {<<i>> \o p : p \in Paths(d.subdirectories[i])} :
                        i \in 1..Len(d.subdirectories) }

RECURSIVE NodeAt(_, _)
\* root.subdirectories[p1].subdirectories[p2]...
NodeAt(d, p) == IF p = <<>> THEN d ELSE NodeAt(d.subdirectories[Head(p)], Tail(p))

RECURSIVE ReplaceAt(_, _, _)
\* the tree d once the node at p has become the node n
ReplaceAt(d, p, n) ==
    IF p = <<>> THEN n
    ELSE [d EXCEPT !.subdirectories[Head(p)] = ReplaceAt(@, Tail(p), n)]

\* list.pop(i)
RemoveIndex(s, i) == SubSeq(s, 1, i - 1) \o SubSeq(s, i + 1, Len(s))

(***************************************************************************)
(* core.py: ProjectAnalyzer                                                *)
(***************************************************************************)
IGNORED_DIRS ==
    { <<"*", ".", "e", "g", "g", "-", "i", "n", "f", "o">>,
      <<".", "b", "z", "r">>,
      <<".", "c", "a", "c", "h", "e">>,
      <<".", "e", "c", "l", "i", "p", "s", "e">>,
      <<".", "e", "g", "g", "s">>,
      <<".", "g", "i", "t">>,
      <<".", "h", "g">>,
      <<".", "i", "d", "e", "a">>,
      <<".", "m", "y", "p", "y", "_", "c", "a", "c", "h", "e">>,
      <<".", "n", "p", "m">>,
      <<".", "p", "y", "t", "e", "s", "t", "_", "c", "a", "c", "h", "e">>,
      <<".", "s", "e", "t", "t", "i", "n", "g", "s">>,
      <<".", "s", "v", "n">>,
      <<".", "t", "o", "x">>,
      <<".", "v", "e", "n", "v">>,
      <<".", "v", "s">>,
      <<".", "v", "s", "c", "o", "d", "e">>,
      <<"_", "_", "p", "y", "c", "a", "c", "h", "e", "_", "_">>,
      <<"b", "i", "n">>,
      <<"b", "u", "i", "l", "d">>,
      <<"c", "o", "v", "e", "r", "a", "g", "e">>,
      <<"d", "i", "s", "t">>,
      <<"e", "n", "v">>,
      <<"l", "o", "g", "s">>,
      <<"n", "o", "d", "e", "_", "m", "o", "d", "u", "l", "e", "s">>,
      <<"o", "b", "j">>,
      <<"o", "u", "t">>,
      <<"t", "a", "r", "g", "e", "t">>,
      <<"t", "e", "m", "p">>,
      <<"t", "m", "p">>,
      <<"v", "e", "n", "v">> }

\* self.ignore_dirs after __init__: the built-in names and the caller's
ignore_dirs_of(extra) == IGNORED_DIRS \cup extra

\* _should_ignore_dir without the test for a leading dot
should_ignore_dir_listed_only(dir_path, ignored) == Name(dir_path) \in ignored

\* ProjectAnalyzer._should_ignore_dir
should_ignore_dir(dir_path, ignored) ==
    LET dir_name == Name(dir_path)
    IN \/ dir_name \in ignored
       \/ /\ StartsWith(dir_name, <<".">>)
          /\ dir_name \notin {<<".">>, <<".", ".">>}

\* a failed analysis leaves an empty FileStats in the list
append_file_stats_or_empty(files, file_stats_) ==
    IF file_stats_ # None THEN Append(files, file_stats_[1])
    ELSE Append(files, FileStats(<<>>, 0, 0, 0, 0, "unknown", None, None, None))

\* the list dir_stats.files after _analyze_file returned file_stats_ (a
\* FileStats or None): "if file_stats: dir_stats.files.append(file_stats)"
append_file_stats(files, file_stats_) ==
    IF file_stats_ # None THEN Append(files, file_stats_[1]) ELSE files

\* the node is appended whatever it holds
attach_always(subdirectories, subdir_stats) == Append(subdirectories, subdir_stats)

\* the node that holds files is appended two times
attach_twice(subdirectories, subdir_stats) ==
    IF total_files(subdir_stats) > 0
    THEN Append(Append(subdirectories, subdir_stats), subdir_stats)
    ELSE subdirectories

\* the node is appended only if the files in and below it hold lines
attach_with_lines(subdirectories, subdir_stats) ==
    IF total_lines_of(subdir_stats) > 0
    THEN Append(subdirectories, subdir_stats)
    ELSE subdirectories

\* the subdirectories list of the caller after a recursive call returned
\* subdir_stats: the node is appended only if it holds analysed files
attach_subdirectory(subdirectories, subdir_stats) ==
    IF total_files(subdir_stats) > 0
    THEN Append(subdirectories, subdir_stats)
    ELSE subdirectories

\* the list with a MarkdownAnalyzer registered after the two
AnalyzersWithMarkdown ==
    << [kind |-> "python", supported_extensions |-> PythonExtensions],
       [kind |-> "generic", supported_extensions |-> GenericExtensions],
       [kind |-> "markdown", supported_extensions |-> MarkdownExtensions] >>

\* self.analyzers, in order: the extensions each one supports
Analyzers == << [kind |-> "python", supported_extensions |-> PythonExtensions],
                [kind |-> "generic", supported_extensions |-> GenericExtensions] >>

\* _should_analyze_file without the test for a leading dot
should_analyze_hidden_too(file_path, extensions) ==
    IF extensions # None /\ extensions[1] # {}
    THEN Lower(Suffix(Name(file_path))) \in extensions[1]
    ELSE \E k \in 1..2 :
            can_analyze(<<PythonExtensions, GenericExtensions>>[k], file_path)

\* ProjectAnalyzer._should_analyze_file; extensions is None or Some(set), and
\* an empty set is as false as None
should_analyze_file(file_path, extensions) ==
    IF StartsWith(Name(file_path), <<".">>) THEN FALSE
    ELSE IF extensions # None /\ extensions[1] # {}
    THEN Lower(Suffix(Name(file_path))) \in extensions[1]
    ELSE \E k \in 1..Len(Analyzers) :
            can_analyze(Analyzers[k].supported_extensions, file_path)

\* _get_analyzer_for_file that matches the suffix as it is spelled
get_analyzer_for_file_exact_case(file_path) ==
    LET able == {k \in 1..Len(Analyzers) :
                    Suffix(Name(file_path)) \in Analyzers[k].supported_extensions}
    IN IF able = {} THEN None
       ELSE Some(Analyzers[CHOOSE k \in able : \A j \in able : k <= j])

\* ProjectAnalyzer._get_analyzer_for_file: the first analyzer of the list that
\* supports the file, or None
get_analyzer_for_file(file_path) ==
    LET able == {k \in 1..Len(Analyzers) :
                    can_analyze(Analyzers[k].supported_extensions, file_path)}
    IN IF able = {} THEN None
       ELSE Some(Analyzers[CHOOSE k \in able : \A j \in able : k <= j])

\* ord() of the characters of the names of the model
Ord ==
    ( "-" :> 45 @@ "." :> 46 @@ "0" :> 48 @@ "1" :> 49 @@ "2" :> 50 @@ "3" :> 51 @@
      "4" :> 52 @@ "5" :> 53 @@ "6" :> 54 @@ "7" :> 55 @@ "8" :> 56 @@ "9" :> 57 @@
      "A" :> 65 @@ "B" :> 66 @@ "C" :> 67 @@ "D" :> 68 @@ "E" :> 69 @@ "F" :> 70 @@
      "G" :> 71 @@ "H" :> 72 @@ "I" :> 73 @@ "J" :> 74 @@ "K" :> 75 @@ "L" :> 76 @@
      "M" :> 77 @@ "N" :> 78 @@ "O" :> 79 @@ "P" :> 80 @@ "Q" :> 81 @@ "R" :> 82 @@
      "S" :> 83 @@ "T" :> 84 @@ "U" :> 85 @@ "V" :> 86 @@ "W" :> 87 @@ "X" :> 88 @@
      "Y" :> 89 @@ "Z" :> 90 @@ "_" :> 95 @@ "a" :> 97 @@ "b" :> 98 @@ "c" :> 99 @@
      "d" :> 100 @@ "e" :> 101 @@ "f" :> 102 @@ "g" :> 103 @@ "h" :> 104 @@ "i" :> 105 @@
      "j" :> 106 @@ "k" :> 107 @@ "l" :> 108 @@ "m" :> 109 @@ "n" :> 110 @@ "o" :> 111 @@
      "p" :> 112 @@ "q" :> 113 @@ "r" :> 114 @@ "s" :> 115 @@ "t" :> 116 @@ "u" :> 117 @@
      "v" :> 118 @@ "w" :> 119 @@ "x" :> 120 @@ "y" :> 121 @@ "z" :> 122 )

RECURSIVE NameLess(_, _)
\* a < b for two names, as str compares them
NameLess(a, b) ==
    IF a = <<>> THEN b # <<>>
    ELSE IF b = <<>> THEN FALSE
    ELSE IF Head(a) # Head(b) THEN Ord[Head(a)] < Ord[Head(b)]
    ELSE NameLess(Tail(a), Tail(b))

\* the listing as it came, not sorted
listed_unsorted(listed) == listed

RECURSIVE SortedByName(_)
\* sorted(dir_path.iterdir()): the entries iterdir() listed, in whatever order
\* it listed them, smallest name first
SortedByName(listed) ==
    IF listed = <<>> THEN <<>>
    ELSE LET k == CHOOSE i \in 1..Len(listed) :
                     \A j \in 1..Len(listed) :
                         j # i => NameLess(listed[i].name, listed[j].name)
         IN <<listed[k]>> \o SortedByName(RemoveIndex(listed, k))

(***************************************************************************)
(* State.                                                                  *)
(***************************************************************************)
VARIABLES
    \* -- one analyzer working on one file --
    analyzer,               \* "generic", "python" or "markdown"
    file_path,              \* the path of the file being analysed
    disk,                   \* the lines the file holds on disk now
    pc,                     \* where analyze() is
    lines,                  \* the list _count_lines returned
    reads,                  \* what _count_lines opened, met and returned
    idx,                    \* the index of the next line of the loop
    total_lines,            \* local of analyze()
    blank_lines,            \* local of analyze()
    language,               \* local of GenericAnalyzer.analyze()
    comment_lines,          \* local of analyze()
    in_multiline_comment,   \* local of GenericAnalyzer.analyze()
    multiline_end_marker,   \* local of GenericAnalyzer.analyze()
    history,                \* the scanner state before and after each line of the loop
    ast_info,               \* how ast.parse ended and what _extract_ast_info returned
    tokenized,              \* how the comment count of a Python file was made
    in_fenced_code,         \* local of MarkdownAnalyzer.analyze()
    code_block_count,       \* local of MarkdownAnalyzer.analyze()
    markdown_counts,        \* the other counters of MarkdownAnalyzer.analyze()
    file_stats,             \* the FileStats analyze() returned, or None
    earlier,                \* the calls of analyze() this instance has returned from
    \* -- a DirectoryStats tree in the hands of a caller --
    tree,                   \* the root DirectoryStats
    last_op,                \* the last operation made on the tree
    \* -- ProjectAnalyzer walking a directory tree --
    root,                   \* what root_path names on disk
    file_extensions,        \* self.file_extensions
    ignore_dirs,            \* self.ignore_dirs
    stack,                  \* the calls of _analyze_directory in progress
    handed,                 \* the paths analyzer.analyze() was called on
    wpc,                    \* where analyze() is
    result,                 \* the tree analyze() returned, or None
    raised,                 \* the exception analyze() raised, or None
    env,                    \* what listing a directory and analysing a file did, by path
    first,                  \* the tree of the first of two runs and what the second walks
    calls                   \* how often this call of analyze() listed or analysed each path

avars == <<analyzer, file_path, disk, pc, lines, reads, idx, total_lines, blank_lines,
           language, comment_lines, in_multiline_comment, multiline_end_marker,
           history, ast_info, tokenized, in_fenced_code, code_block_count,
           markdown_counts, file_stats, earlier>>

mvars == <<tree, last_op>>

wvars == <<root, file_extensions, ignore_dirs, stack, handed, wpc, result, raised,
           env, first, calls>>

vars == <<avars, mvars, wvars>>

\* the analyzer part of the state when no analyzer is at work
IdleAnalyzer ==
    /\ analyzer = "none"
    /\ file_path = <<>>
    /\ disk = <<>>
    /\ pc = "idle"
    /\ lines = <<>>
    /\ reads = <<>>
    /\ idx = 1
    /\ total_lines = 0
    /\ blank_lines = 0
    /\ language = ""
    /\ comment_lines = 0
    /\ in_multiline_comment = FALSE
    /\ multiline_end_marker = <<>>
    /\ history = <<>>
    /\ ast_info = <<>>
    /\ tokenized = <<>>
    /\ in_fenced_code = FALSE
    /\ code_block_count = 0
    /\ markdown_counts = <<>>
    /\ file_stats = <<>>
    /\ earlier = <<>>

\* the tree part of the state when no caller holds a tree
IdleModel ==
    /\ tree = <<>>
    /\ last_op = [op |-> "none"]

\* the walker part of the state when no ProjectAnalyzer is at work
IdleWalker ==
    /\ root = <<>>
    /\ file_extensions = <<>>
    /\ ignore_dirs = {}
    /\ stack = <<>>
    /\ handed = {}
    /\ wpc = "idle"
    /\ result = <<>>
    /\ raised = <<>>
    /\ env = <<>>
    /\ first = <<>>
    /\ calls = <<>>

\* lines tried on the languages with /* */ comments
CStyleLines ==
    { <<"\n">>,
      <<" ", "\t", "\n">>,
      <<"x", "\n">>,
      <<"/", "/", "x", "\n">>,
      <<"x", "/", "/", "\n">>,
      <<"/", "*", "x", "\n">>,
      <<"x", "*", "/", "\n">>,
      <<"/", "*", "x", "*", "/", "\n">>,
      <<"*", "/", "x", "/", "*", "\n">>,
      <<"/", "*", "/", "\n">>,
      <<"/", "/", "x", "/", "*", "\n">> }

\* lines tried on the languages with # comments
HashLines ==
    { <<"\n">>,
      <<"x", "\n">>,
      <<"#", "x", "\n">>,
      <<" ", "#", "x", "\n">>,
      <<"x", "#", "\n">>,
      <<"/", "*", "x", "\n">> }

\* lines tried on the languages with -- comments
DashLines ==
    { <<"\n">>,
      <<"x", "\n">>,
      <<"-", "-", "x", "\n">>,
      <<"x", "-", "-", "\n">>,
      <<"-", "x", "\n">>,
      <<"/", "*", "x", "\n">> }

\* lines tried on the languages with <!-- --> comments
MarkupLines ==
    { <<"\n">>,
      <<"x", "\n">>,
      <<"<", "!", "-", "-", "x", "\n">>,
      <<"x", "-", "-", ">", "\n">>,
      <<"<", "!", "-", "-", "x", "-", "-", ">", "\n">>,
      <<"<", "!", "-", "-", ">", "\n">>,
      <<"-", "-", ">", "x", "<", "!", "-", "-", "\n">>,
      <<"/", "/", "x", "\n">> }

\* lines tried on the languages without comment syntax: every marker
AnyMarkerLines ==
    { <<"\n">>,
      <<"x", "\n">>,
      <<"#", "x", "\n">>,
      <<"/", "/", "x", "\n">>,
      <<"-", "-", "x", "\n">>,
      <<"/", "*", "x", "\n">>,
      <<"x", "*", "/", "\n">>,
      <<"<", "!", "-", "-", "x", "\n">> }

\* lines tried on a file that may not be UTF-8
EncodedLines ==
    { <<"\n">>,
      <<"x", "\n">>,
      <<ByteA0, "\n">>,
      <<ByteA0, "#", "x", "\n">> }

\* lines tried on Python files
PythonLines ==
    { <<"\n">>,
      <<"#", "x", "\n">>,
      <<"c", "l", "a", "s", "s", " ", "x", ":", " ", "x", " ", "#", "x", "\n">>,
      <<" ", "x", "\n">> }

\* lines tried on Markdown files
MarkdownLines ==
    { <<"\n">>,
      <<"x", "\n">>,
      <<BackTick, BackTick, BackTick, "\n">>,
      <<" ", BackTick, BackTick, BackTick, "x", "\n">>,
      <<"#", " ", "x", "\n">> }

\* the file names given to GenericAnalyzer.analyze
GenericNames ==
    { <<"a", ".", "j", "s">>,
      <<"a", ".", "c", "s", "s">>,
      <<"a", ".", "s", "h">>,
      <<"a", ".", "R">>,
      <<"a", ".", "s", "q", "l">>,
      <<"a", ".", "h", "t", "m", "l">>,
      <<"a", ".", "j", "s", "o", "n">>,
      <<"a", ".", "e", "r", "l">>,
      <<"a", ".", "x", "y", "z">>,
      <<"a", ".", "y", "m", "l">> }

\* the lines a file of that name is made of
LinesFor(name) ==
    CASE name = <<"a", ".", "j", "s">> -> CStyleLines
      [] name = <<"a", ".", "c", "s", "s">> -> CStyleLines
      [] name = <<"a", ".", "s", "h">> -> HashLines
      [] name = <<"a", ".", "R">> -> HashLines
      [] name = <<"a", ".", "s", "q", "l">> -> DashLines
      [] name = <<"a", ".", "h", "t", "m", "l">> -> MarkupLines
      [] name = <<"a", ".", "j", "s", "o", "n">> -> AnyMarkerLines
      [] name = <<"a", ".", "e", "r", "l">> -> AnyMarkerLines
      [] name = <<"a", ".", "x", "y", "z">> -> AnyMarkerLines
      [] name = <<"a", ".", "y", "m", "l">> -> EncodedLines
      [] name = <<"a", ".", "p", "y">> -> PythonLines
      [] name = <<"a", ".", "m", "d">> -> MarkdownLines

(***************************************************************************)
(* The analyzers at work on one file.                                      *)
(***************************************************************************)
PythonName == <<"a", ".", "p", "y">>

MarkdownName == <<"a", ".", "m", "d">>

\* the file contents of at most MaxLines lines made of the lines ls
FilesOver(ls) == UNION {[1..n -> ls] : n \in 0..MaxLines}

InitAnalyzer ==
    /\ analyzer \in {"generic", "python", "markdown"}
    /\ \E name \in CASE analyzer = "generic" -> GenericNames
                      [] analyzer = "python" -> {PythonName}
                      [] analyzer = "markdown" -> {MarkdownName} :
         file_path = <<name>>
    /\ disk \in FilesOver(LinesFor(Name(file_path)))
    /\ pc = "start"
    /\ lines = <<>>
    /\ reads = None
    /\ idx = 1
    /\ total_lines = 0
    /\ blank_lines = 0
    /\ language = ""
    /\ comment_lines = 0
    /\ in_multiline_comment = FALSE
    /\ multiline_end_marker = <<>>
    /\ history = <<>>
    /\ ast_info = None
    /\ tokenized = None
    /\ in_fenced_code = FALSE
    /\ code_block_count = 0
    /\ markdown_counts = CountsStart
    /\ file_stats = None
    /\ earlier = <<>>
    /\ IdleModel
    /\ IdleWalker

\* GenericCountLines of an analyzer that keeps the scanner state from one
\* call to the next
GenericCountLinesKeepsState ==
    /\ analyzer = "generic" /\ pc = "start"
    /\ \E outcome \in ReadOutcomes :
         LET counted == count_lines(disk, outcome)
         IN /\ reads' = Some([valid_utf8  |-> ValidUtf8(disk),
                               opened      |-> counted.opened,
                               failed      |-> counted.failed,
                               total_lines |-> counted.total_lines,
                               blank_lines |-> counted.blank_lines,
                               lines       |-> Len(counted.lines)])
            /\ language' = get_language_for_file(file_path)
            /\ total_lines' = counted.total_lines
            /\ blank_lines' = counted.blank_lines
            /\ lines' = counted.lines
            /\ IF counted.total_lines = 0
               THEN /\ file_stats' = Some(FileStats(file_path, 0, 0, 0, 0,
                                          get_language_for_file(file_path), None, None, None))
                    /\ pc' = "done"
               ELSE /\ file_stats' = file_stats
                    /\ pc' = "scan"
    /\ comment_lines' = 0
    /\ UNCHANGED <<in_multiline_comment, multiline_end_marker>>
    /\ idx' = 1
    /\ UNCHANGED <<analyzer, file_path, disk, history, ast_info, tokenized,
                   in_fenced_code, code_block_count>>
    /\ UNCHANGED <<markdown_counts, earlier, mvars, wvars>>

\* GenericAnalyzer.analyze up to the loop: the language, _count_lines and the
\* return for a file without lines
GenericCountLines ==
    /\ analyzer = "generic" /\ pc = "start"
    /\ \E outcome \in ReadOutcomes :
         LET counted == count_lines(disk, outcome)
         IN /\ reads' = Some([valid_utf8  |-> ValidUtf8(disk),
                               opened      |-> counted.opened,
                               failed      |-> counted.failed,
                               total_lines |-> counted.total_lines,
                               blank_lines |-> counted.blank_lines,
                               lines       |-> Len(counted.lines)])
            /\ language' = get_language_for_file(file_path)
            /\ total_lines' = counted.total_lines
            /\ blank_lines' = counted.blank_lines
            /\ lines' = counted.lines
            /\ IF counted.total_lines = 0
               THEN /\ file_stats' = Some(FileStats(file_path, 0, 0, 0, 0,
                                          get_language_for_file(file_path), None, None, None))
                    /\ pc' = "done"
               ELSE /\ file_stats' = file_stats
                    /\ pc' = "scan"
    /\ comment_lines' = 0
    /\ in_multiline_comment' = FALSE
    /\ multiline_end_marker' = <<>>
    /\ idx' = 1
    /\ UNCHANGED <<analyzer, file_path, disk, history, ast_info, tokenized,
                   in_fenced_code, code_block_count>>
    /\ UNCHANGED <<markdown_counts, earlier, mvars, wvars>>

\* one iteration of the loop of GenericAnalyzer.analyze
GenericScanLine ==
    /\ analyzer = "generic" /\ pc = "scan" /\ idx <= Len(lines)
    /\ LET before == [ comment_lines        |-> comment_lines,
                       in_multiline_comment |-> in_multiline_comment,
                       multiline_end_marker |-> multiline_end_marker ]
           after  == ScanLine(before, lines[idx], language)
       IN /\ comment_lines' = after.comment_lines
          /\ in_multiline_comment' = after.in_multiline_comment
          /\ multiline_end_marker' = after.multiline_end_marker
          /\ history' = Append(history, [before |-> before, after |-> after])
    /\ idx' = idx + 1
    /\ UNCHANGED <<analyzer, file_path, reads, disk, pc, lines, total_lines, blank_lines,
                   language, ast_info, tokenized, in_fenced_code, code_block_count,
                   file_stats>>
    /\ UNCHANGED <<markdown_counts, earlier, mvars, wvars>>

\* the end of GenericAnalyzer.analyze: code_lines and the FileStats
GenericFinish ==
    /\ analyzer = "generic" /\ pc = "scan" /\ idx > Len(lines)
    /\ file_stats' = Some(FileStats(file_path, total_lines,
                                    total_lines - blank_lines - comment_lines,
                                    comment_lines, blank_lines, language,
                                    None, None, None))
    /\ pc' = "done"
    /\ UNCHANGED <<analyzer, file_path, reads, disk, lines, idx, total_lines, blank_lines,
                   language, comment_lines, in_multiline_comment, multiline_end_marker,
                   history, ast_info, tokenized, in_fenced_code, code_block_count>>
    /\ UNCHANGED <<markdown_counts, earlier, mvars, wvars>>

\* PythonAnalyzer.analyze up to _extract_ast_info: _count_lines and the return
\* for a file without lines; the list of lines is not used afterwards
PythonCountLines ==
    /\ analyzer = "python" /\ pc = "start"
    /\ \E outcome \in ReadOutcomes :
         LET counted == count_lines(disk, outcome)
         IN /\ reads' = Some([valid_utf8  |-> ValidUtf8(disk),
                               opened      |-> counted.opened,
                               failed      |-> counted.failed,
                               total_lines |-> counted.total_lines,
                               blank_lines |-> counted.blank_lines,
                               lines       |-> Len(counted.lines)])
            /\ total_lines' = counted.total_lines
            /\ blank_lines' = counted.blank_lines
            /\ IF counted.total_lines = 0
               THEN /\ file_stats' = Some(FileStats(file_path, 0, 0, 0, 0, "Python",
                                                    Some(FALSE), Some(0), Some(0)))
                    /\ pc' = "done"
               ELSE /\ file_stats' = file_stats
                    /\ pc' = "ast"
    /\ UNCHANGED <<analyzer, file_path, disk, lines, idx, language, comment_lines,
                   in_multiline_comment, multiline_end_marker, history, ast_info,
                   tokenized, in_fenced_code, code_block_count>>
    /\ UNCHANGED <<markdown_counts, earlier, mvars, wvars>>

\* the call of _extract_ast_info, which opens the file again
PythonExtractAst ==
    /\ analyzer = "python" /\ pc = "ast"
    /\ \E ast \in AstOutcomes(disk) :
         ast_info' = Some([parsing |-> ast.kind, info |-> extract_ast_info(ast)])
    /\ pc' = "tokenize"
    /\ UNCHANGED <<analyzer, file_path, reads, disk, lines, idx, total_lines, blank_lines,
                   language, comment_lines, in_multiline_comment, multiline_end_marker,
                   history, tokenized, in_fenced_code, code_block_count,
                   file_stats>>
    /\ UNCHANGED <<markdown_counts, earlier, mvars, wvars>>

\* the call of _count_comment_lines, which opens the file a third time, and
\* the rest of PythonAnalyzer.analyze
PythonCountComments ==
    /\ analyzer = "python" /\ pc = "tokenize"
    /\ \E tokenizing \in TokenizeOutcomes, reading \in {"ok", "error"} :
         LET comment == count_comment_lines(disk, tokenizing, reading)
         IN /\ comment_lines' = comment
            /\ tokenized' = Some([tokenizing |-> tokenizing, reading |-> reading])
            /\ file_stats' = Some(PythonStats(file_path, total_lines, blank_lines,
                                              comment, ast_info[1].info))
    /\ pc' = "done"
    /\ UNCHANGED <<analyzer, file_path, reads, disk, lines, idx, total_lines, blank_lines,
                   language, in_multiline_comment, multiline_end_marker, history,
                   ast_info, in_fenced_code, code_block_count>>
    /\ UNCHANGED <<markdown_counts, earlier, mvars, wvars>>

\* another process rewrites the file between two of the reads PythonAnalyzer
\* makes of it
WriteFile ==
    /\ analyzer = "python" /\ pc \in {"ast", "tokenize"}
    /\ \E content \in FilesOver(LinesFor(Name(file_path))) :
         /\ content # disk
         /\ disk' = content
    /\ UNCHANGED <<analyzer, file_path, reads, pc, lines, idx, total_lines, blank_lines,
                   language, comment_lines, in_multiline_comment, multiline_end_marker,
                   history, ast_info, tokenized, in_fenced_code, code_block_count,
                   file_stats>>
    /\ UNCHANGED <<markdown_counts, earlier, mvars, wvars>>

\* MarkdownAnalyzer.analyze up to the loop: _count_lines
MarkdownCountLines ==
    /\ analyzer = "markdown" /\ pc = "start"
    /\ \E outcome \in ReadOutcomes :
         LET counted == count_lines(disk, outcome)
         IN /\ reads' = Some([valid_utf8  |-> ValidUtf8(disk),
                               opened      |-> counted.opened,
                               failed      |-> counted.failed,
                               total_lines |-> counted.total_lines,
                               blank_lines |-> counted.blank_lines,
                               lines       |-> Len(counted.lines)])
            /\ total_lines' = counted.total_lines
            /\ blank_lines' = counted.blank_lines
            /\ lines' = counted.lines
    /\ in_fenced_code' = FALSE
    /\ code_block_count' = 0
    /\ markdown_counts' = CountsStart
    /\ idx' = 1
    /\ pc' = "scan"
    /\ UNCHANGED <<analyzer, file_path, disk, language, comment_lines,
                   in_multiline_comment, multiline_end_marker, history, ast_info,
                   tokenized, file_stats>>
    /\ UNCHANGED <<earlier, mvars, wvars>>

\* one iteration of the loop of MarkdownAnalyzer.analyze
MarkdownScanLine ==
    /\ analyzer = "markdown" /\ pc = "scan" /\ idx <= Len(lines)
    /\ LET after == FenceLine([in_fenced_code |-> in_fenced_code,
                               code_block_count |-> code_block_count], lines[idx])
       IN /\ in_fenced_code' = after.in_fenced_code
          /\ code_block_count' = after.code_block_count
    /\ markdown_counts' = IF IsFence(lines[idx]) \/ in_fenced_code
                          THEN markdown_counts
                          ELSE CountLine(markdown_counts, lines, idx)
    /\ idx' = idx + 1
    /\ UNCHANGED <<analyzer, file_path, reads, disk, pc, lines, total_lines, blank_lines,
                   language, comment_lines, in_multiline_comment, multiline_end_marker,
                   history, ast_info, tokenized, file_stats>>
    /\ UNCHANGED <<earlier, mvars, wvars>>

\* the end of MarkdownAnalyzer.analyze: the FileStats
MarkdownFinish ==
    /\ analyzer = "markdown" /\ pc = "scan" /\ idx > Len(lines)
    /\ file_stats' = Some(MarkdownStats(file_path, total_lines, blank_lines))
    /\ pc' = "done"
    /\ UNCHANGED <<analyzer, file_path, reads, disk, lines, idx, total_lines, blank_lines,
                   language, comment_lines, in_multiline_comment, multiline_end_marker,
                   history, ast_info, tokenized, in_fenced_code, code_block_count>>
    /\ UNCHANGED <<markdown_counts, earlier, mvars, wvars>>

NextAnalyzer ==
    \/ GenericCountLines
    \/ GenericScanLine
    \/ GenericFinish
    \/ PythonCountLines
    \/ PythonExtractAst
    \/ PythonCountComments
    \/ WriteFile
    \/ MarkdownCountLines
    \/ MarkdownScanLine
    \/ MarkdownFinish

\* the files the instance of GenericAnalyzer analyses first: one that ends
\* inside a comment, one that ends inside a comment after a blank line and
\* one without comment
FirstFiles ==
    { <<<<"/", "*", "x", "\n">>>>,
      <<<<"/", "/", "x", "/", "*", "\n">>, <<" ", "\t", "\n">>>>,
      <<<<"x", "\n">>>> }

\* the names of the files it analyses next
NextNames == { <<"a", ".", "j", "s">>, <<"a", ".", "h", "t", "m", "l">> }

\* the lines those files are made of
NextLinesFor(name) ==
    IF name = <<"a", ".", "j", "s">>
    THEN { <<" ", "\t", "\n">>,
           <<"x", "\n">>,
           <<"/", "*", "x", "\n">>,
           <<"x", "*", "/", "\n">>,
           <<"*", "/", "x", "/", "*", "\n">>,
           <<"/", "*", "/", "\n">>,
           <<"/", "/", "x", "/", "*", "\n">> }
    ELSE { <<"x", "\n">>,
           <<"<", "!", "-", "-", "x", "\n">>,
           <<"x", "-", "-", ">", "\n">> }

\* an instance of GenericAnalyzer is called on a first file
InitSequence ==
    /\ analyzer = "generic"
    /\ file_path = <<<<"a", ".", "j", "s">>>>
    /\ disk \in FirstFiles
    /\ pc = "start"
    /\ lines = <<>>
    /\ reads = None
    /\ idx = 1
    /\ total_lines = 0
    /\ blank_lines = 0
    /\ language = ""
    /\ comment_lines = 0
    /\ in_multiline_comment = FALSE
    /\ multiline_end_marker = <<>>
    /\ history = <<>>
    /\ ast_info = None
    /\ tokenized = None
    /\ in_fenced_code = FALSE
    /\ code_block_count = 0
    /\ markdown_counts = CountsStart
    /\ file_stats = None
    /\ earlier = <<>>
    /\ IdleModel
    /\ IdleWalker

\* analyze() of the same instance is called on another file, once the call
\* on the first file has returned: the locals of the new call hold nothing
\* the call has not assigned yet
AnalyzeAgain ==
    /\ analyzer = "generic" /\ pc = "done" /\ earlier = <<>>
    /\ earlier' = <<[ file_path            |-> file_path,
                      in_multiline_comment |-> in_multiline_comment,
                      multiline_end_marker |-> multiline_end_marker,
                      file_stats           |-> file_stats ]>>
    /\ \E name \in NextNames :
         /\ file_path' = <<name>>
         /\ disk' \in FilesOver(NextLinesFor(name))
    /\ pc' = "start"
    /\ lines' = <<>>
    /\ reads' = None
    /\ history' = <<>>
    /\ file_stats' = None
    /\ UNCHANGED <<analyzer, idx, total_lines, blank_lines, language, comment_lines,
                   in_multiline_comment, multiline_end_marker, ast_info, tokenized,
                   in_fenced_code, code_block_count, markdown_counts>>
    /\ UNCHANGED <<mvars, wvars>>

NextSequence ==
    \/ GenericCountLines
    \/ GenericScanLine
    \/ GenericFinish
    \/ AnalyzeAgain

\* lines tried on Markdown files for what the loop counts: a blank line,
\* fences, a heading, an image next to a link, a table header, a table
\* divider and a fence line that holds a link and a bar
MarkdownTextLines ==
    { <<"\n">>,
      <<BackTick, BackTick, BackTick, "\n">>,
      <<" ", BackTick, BackTick, BackTick, "x", "\n">>,
      <<"#", " ", "x", "\n">>,
      <<"!", "[", "x", "]", "(", "y", ")", "[", "x", "]", "(", "y", ")", "\n">>,
      <<"x", "|", "y", "\n">>,
      <<"-", "|", "-", "\n">>,
      <<BackTick, BackTick, BackTick, "[", "x", "]", "(", "y", ")", "|", "\n">> }

\* MarkdownAnalyzer.analyze is called on a file of such lines
InitMarkdown ==
    /\ analyzer = "markdown"
    /\ file_path = <<MarkdownName>>
    /\ disk \in FilesOver(MarkdownTextLines)
    /\ pc = "start"
    /\ lines = <<>>
    /\ reads = None
    /\ idx = 1
    /\ total_lines = 0
    /\ blank_lines = 0
    /\ language = ""
    /\ comment_lines = 0
    /\ in_multiline_comment = FALSE
    /\ multiline_end_marker = <<>>
    /\ history = <<>>
    /\ ast_info = None
    /\ tokenized = None
    /\ in_fenced_code = FALSE
    /\ code_block_count = 0
    /\ markdown_counts = CountsStart
    /\ file_stats = None
    /\ earlier = <<>>
    /\ IdleModel
    /\ IdleWalker

NextMarkdown ==
    \/ MarkdownCountLines
    \/ MarkdownScanLine
    \/ MarkdownFinish

(***************************************************************************)
(* A DirectoryStats tree in the hands of a caller that appends to and      *)
(* removes from its lists, changes the counts of a file, reads the         *)
(* aggregate properties and sorts.                                         *)
(***************************************************************************)
\* the line counts the files of such a tree have: total, code, comment, blank
\* (two of them with the same total, so that a sort has equal files to order)
CountValues == {<<1, 1, 0, 0>>, <<3, 0, 2, 1>>, <<3, 3, 0, 0>>}

\* the names the files of such a tree have
ModelNames == {<<"a">>}

\* a FileStats built by hand
ModelFile(name, counts) ==
    FileStats(name, counts[1], counts[2], counts[3], counts[4], "unknown", None, None, None)

\* the number of FileStats objects in the tree d
FilesIn(d) ==
    Cardinality({pi \in Paths(d) \X (1..MaxFiles) : pi[2] <= Len(NodeAt(d, pi[1]).files)})

InitModel ==
    /\ tree = DirectoryStats(<<"r">>)
    /\ last_op = [op |-> "init"]
    /\ IdleAnalyzer
    /\ IdleWalker

\* node.files.append(FileStats(...))
AppendFile ==
    /\ FilesIn(tree) < MaxFiles
    /\ \E p \in Paths(tree), name \in ModelNames, counts \in CountValues :
         tree' = ReplaceAt(tree, p,
                    [NodeAt(tree, p) EXCEPT !.files = Append(@, ModelFile(name, counts))])
    /\ last_op' = [op |-> "mutate"]
    /\ UNCHANGED <<avars, wvars>>

\* node.files.pop(i)
RemoveFile ==
    /\ \E p \in Paths(tree) : \E i \in 1..Len(NodeAt(tree, p).files) :
         tree' = ReplaceAt(tree, p, [NodeAt(tree, p) EXCEPT !.files = RemoveIndex(@, i)])
    /\ last_op' = [op |-> "mutate"]
    /\ UNCHANGED <<avars, wvars>>

\* assignment to the four counts of node.files[i]
SetCounts ==
    /\ \E p \in Paths(tree) : \E i \in 1..Len(NodeAt(tree, p).files), counts \in CountValues :
         /\ ModelFile(NodeAt(tree, p).files[i].path, counts) # NodeAt(tree, p).files[i]
         /\ tree' = ReplaceAt(tree, p,
                       [NodeAt(tree, p) EXCEPT
                           !.files[i] = ModelFile(@.path, counts)])
    /\ last_op' = [op |-> "mutate"]
    /\ UNCHANGED <<avars, wvars>>

\* node.subdirectories.append(DirectoryStats(...))
AppendSubdirectory ==
    /\ Cardinality(Paths(tree)) < MaxDirs
    /\ \E p \in Paths(tree) :
         tree' = ReplaceAt(tree, p,
                    [NodeAt(tree, p) EXCEPT
                        !.subdirectories = Append(@, DirectoryStats(<<"d">>))])
    /\ last_op' = [op |-> "mutate"]
    /\ UNCHANGED <<avars, wvars>>

\* node.subdirectories.pop(i)
RemoveSubdirectory ==
    /\ \E p \in Paths(tree) : \E i \in 1..Len(NodeAt(tree, p).subdirectories) :
         tree' = ReplaceAt(tree, p,
                    [NodeAt(tree, p) EXCEPT !.subdirectories = RemoveIndex(@, i)])
    /\ last_op' = [op |-> "mutate"]
    /\ UNCHANGED <<avars, wvars>>

\* a read of the five aggregate properties of a node
QueryTotals ==
    /\ \E p \in Paths(tree) :
         last_op' = [op |-> "query", path |-> p, result |-> Aggregates(NodeAt(tree, p))]
    /\ UNCHANGED tree
    /\ UNCHANGED <<avars, wvars>>

\* node.sort_files_by_size()
SortFiles ==
    /\ \E p \in Paths(tree) :
         /\ tree' = ReplaceAt(tree, p, sort_files_by_size(NodeAt(tree, p)))
         /\ last_op' = [op |-> "sort", path |-> p, before |-> tree]
    /\ UNCHANGED <<avars, wvars>>

NextModel ==
    \/ AppendFile
    \/ RemoveFile
    \/ SetCounts
    \/ AppendSubdirectory
    \/ RemoveSubdirectory
    \/ QueryTotals
    \/ SortFiles

(***************************************************************************)
(* The percentages of a FileStats and of a DirectoryStats, read on small   *)
(* trees whose files have every split of a few lines into code, comment    *)
(* and blank lines.                                                        *)
(***************************************************************************)
\* most lines of a file of such a tree
MaxCount == 3

\* the line counts of the files: total, code, comment, blank
PercentCounts ==
    {c \in (0..MaxCount) \X (0..MaxCount) \X (0..MaxCount) \X (0..MaxCount) :
        c[1] = c[2] + c[3] + c[4]}

\* the trees: a root with at most one file, alone or with a subdirectory
\* that holds one file
PercentTrees ==
    LET Files == {<<>>} \cup {<<ModelFile(<<"a">>, c)>> : c \in PercentCounts}
    IN {[DirectoryStats(<<"r">>) EXCEPT !.files = fs] : fs \in Files}
       \cup {[DirectoryStats(<<"r">>) EXCEPT
                 !.files = fs,
                 !.subdirectories =
                     <<[DirectoryStats(<<"d">>) EXCEPT
                          !.files = <<ModelFile(<<"b">>, c)>>]>>] :
             fs \in Files, c \in PercentCounts}

InitPercent ==
    /\ tree \in PercentTrees
    /\ last_op = [op |-> "init"]
    /\ IdleAnalyzer
    /\ IdleWalker

\* a read of the two percentages of a FileStats
ReadFilePercentages ==
    /\ \E p \in Paths(tree) : \E i \in 1..Len(NodeAt(tree, p).files) :
         LET f == NodeAt(tree, p).files[i]
         IN last_op' = [op |-> "file_percentages", path |-> p, index |-> i,
                        result |-> [code_percentage    |-> file_code_percentage(f),
                                    comment_percentage |-> file_comment_percentage(f)]]
    /\ UNCHANGED tree
    /\ UNCHANGED <<avars, wvars>>

\* a read of the three percentages of a DirectoryStats
ReadDirectoryPercentages ==
    /\ \E p \in Paths(tree) :
         LET d == NodeAt(tree, p)
         IN last_op' = [op |-> "directory_percentages", path |-> p,
                        result |-> [code_percentage    |-> code_percentage(d),
                                    comment_percentage |-> comment_percentage(d),
                                    blank_percentage   |-> blank_percentage(d)]]
    /\ UNCHANGED tree
    /\ UNCHANGED <<avars, wvars>>

NextPercent ==
    \/ ReadFilePercentages
    \/ ReadDirectoryPercentages

(***************************************************************************)
(* The directory tree ProjectAnalyzer walks.  An entry of a directory is a *)
(* regular file, a directory with its own entries, or something that is    *)
(* neither (a FIFO, a dangling link).                                      *)
(***************************************************************************)
\* most entries below the root
MaxEntries == 3

\* most entries below the root when the caller runs analyze() twice
MaxEntriesTwice == 2

\* the names regular files have
FileNames ==
    { <<"a", ".", "j", "s">>,
      <<".", "h", ".", "j", "s">>,
      <<"b", ".", "P", "Y">>,
      <<"c", ".", "m", "d">> }

\* the names directories have
DirNames ==
    { <<"s", "r", "c">>,
      <<"t", "m", "p">>,
      <<".", "x">>,
      <<"e", "x", "t">> }

\* the name of the entry that is neither a file nor a directory
OtherName == <<"p", ".", "j", "s">>

\* what each file holds
ContentOf(name) ==
    CASE name = <<"a", ".", "j", "s">> -> <<<<"/", "/", "x", "\n">>, <<"x", "\n">>, <<"\n">>>>
      [] name = <<".", "h", ".", "j", "s">> -> <<<<"x", "\n">>>>
      [] name = <<"b", ".", "P", "Y">> ->
            << <<"\"", "x", "\"", "\n">>,
               <<"c", "l", "a", "s", "s", " ", "x", ":", " ", "x", "\n">>,
               <<"d", "e", "f", " ", "x", "(", ")", ":", " ", "x", "\n">>,
               <<"\n">> >>
      [] name = <<"c", ".", "m", "d">> -> <<<<"#", " ", "x", "\n">>>>
      [] name = <<"d", ".", "m", "a", "r", "k", "d", "o", "w", "n">> ->
            <<<<"x", "\n">>>>
      [] OTHER -> <<>>

FileEntry(name) == [kind |-> "file", name |-> name, entries |-> {}]

OtherEntry(name) == [kind |-> "other", name |-> name, entries |-> {}]

DirEntry(name, entries) == [kind |-> "dir", name |-> name, entries |-> entries]

RECURSIVE ForestsOf(_)
\* the sets of entries, of different names, that hold n entries in all
ForestsOf(n) ==
    IF n = 0 THEN {{}}
    ELSE LET EntriesOf(k) ==
                 (IF k = 1
                  THEN {FileEntry(f) : f \in FileNames} \cup {OtherEntry(OtherName)}
                  ELSE {})
                 \cup {DirEntry(d, F) : d \in DirNames, F \in ForestsOf(k - 1)}
         IN UNION { UNION { { F \cup {e} :
                                F \in {G \in ForestsOf(n - k) :
                                          \A g \in G : g.name # e.name} } :
                            e \in EntriesOf(k) } :
                    k \in 1..n }

\* the root paths given to ProjectAnalyzer: a directory, a regular file, or a
\* path that does not exist
RootsUpTo(most) ==
    {DirEntry(<<"r">>, F) : F \in UNION {ForestsOf(n) : n \in 0..most}}
    \cup {FileEntry(<<"r">>), [kind |-> "missing", name |-> <<"r">>, entries |-> {}]}

\* two roots of four entries: one whose directories ext and src hold the
\* same file, as is_dir() and iterdir() show them when one is a symbolic
\* link to the other, and one that holds a file of each Markdown suffix
LargerRoots ==
    { DirEntry(<<"r">>,
               {DirEntry(<<"e", "x", "t">>, {FileEntry(<<"a", ".", "j", "s">>)}),
                DirEntry(<<"s", "r", "c">>, {FileEntry(<<"a", ".", "j", "s">>)})}),
      DirEntry(<<"r">>,
               {FileEntry(<<"a", ".", "j", "s">>),
                FileEntry(<<"c", ".", "m", "d">>),
                FileEntry(<<"d", ".", "m", "a", "r", "k", "d", "o", "w", "n">>)}) }

\* the root paths of the walks made once
Roots == RootsUpTo(MaxEntries) \cup LargerRoots

\* the file_extensions arguments tried
ExtensionArguments ==
    { None,
      Some({}),
      Some({<<".", "j", "s">>, <<".", "m", "d">>}) }

\* the ignore_dirs arguments tried
IgnoreArguments == { {}, {<<"e", "x", "t">>} }

\* what analyzer.analyze(file_path) can give to _analyze_file: a FileStats
\* for each way the reads of the file can go, or an exception (None)
AnalyzeOutcomes(kind, item_path, content) ==
    IF kind = "python"
    THEN {Some(PythonAnalyze(item_path, content, outcome, ast, tokenizing, reading)) :
             outcome \in ReadOutcomes, ast \in AstOutcomes(content),
             tokenizing \in TokenizeOutcomes, reading \in {"ok", "error"}}
         \cup {None}
    ELSE {Some(GenericAnalyze(item_path, content, outcome)) : outcome \in ReadOutcomes}
         \cup {None}

\* ProjectAnalyzer._analyze_file: the values it can return
analyze_file(item_path, content) ==
    LET found == get_analyzer_for_file(item_path)
    IN IF found = None THEN {None}
       ELSE AnalyzeOutcomes(found[1].kind, item_path, content)

\* a call of _analyze_directory in progress: the directory, its sorted items
\* (None before iterdir), the index of the next item and the node being built
Frame(dir_path, entry) ==
    [ dir_path  |-> dir_path,
      entry     |-> entry,
      items     |-> None,
      next      |-> 1,
      dir_stats |-> DirectoryStats(dir_path) ]

InitWalker ==
    /\ root \in Roots
    /\ file_extensions \in ExtensionArguments
    /\ \E extra \in IgnoreArguments : ignore_dirs = ignore_dirs_of(extra)
    /\ stack = <<>>
    /\ handed = {}
    /\ wpc = "init"
    /\ result = None
    /\ raised = None
    /\ env = <<>>
    /\ first = None
    /\ calls = <<>>
    /\ IdleAnalyzer
    /\ IdleModel

\* the frame of the innermost call
Top == stack[Len(stack)]

\* the stack with its innermost frame replaced
WithTop(f) == [stack EXCEPT ![Len(stack)] = f]

\* the item the innermost call is at
Item == Top.items[1][Top.next]

\* what dir_path.iterdir() can do: list the directory, or fail because the
\* directory may not be read, is not there any more, is not a directory any
\* more (a regular file took its place after is_dir() answered), or cannot
\* be read for another reason of the system (OSError)
ListOutcomes ==
    {"ok", "PermissionError", "FileNotFoundError", "NotADirectoryError", "OSError"}

\* the listing outcomes that the except clause of _analyze_directory catches
\* or that are no error; every other one leaves _analyze_directory
ListingHandled == {"ok", "PermissionError"}

\* the orders in which iterdir() can list the entries of a directory
Listings(entries) ==
    {listed \in [1..Cardinality(entries) -> entries] :
        \A e \in entries : \E i \in 1..Cardinality(entries) : listed[i] = e}

\* the items are those of the listing even when it was denied
listed_items_anyway(listing, listed) == SortedByName(listed)

\* the items the loop of _analyze_directory goes through: the sorted listing,
\* or none when iterdir() raised PermissionError and the node is returned as
\* it was made
listed_items(listing, listed) ==
    IF listing = "ok" THEN SortedByName(listed) ELSE <<>>

\* what is known of the path p once its outcome o was seen: the same path has
\* the same outcome as long as nothing on disk changes
Known(p, o) == (p :> o) @@ env

\* how often the path p was listed or analysed so far
CallsOf(p) == IF p \in DOMAIN calls THEN calls[p] ELSE 0

\* the counts once the path p is listed or analysed
OnceMore(p) == (p :> CallsOf(p) + 1) @@ calls

\* the outcome o is one the path p can have now
Repeats(p, o) == p \in DOMAIN env => o = env[p]

\* the errors of stat() that Path.exists(), Path.is_dir() and Path.is_file()
\* raise again: a directory on the way that may not be searched
\* (PermissionError) and every other error that is not one of a path that
\* is not there (OSError: a name too long, an input/output error)
StatErrors == {"PermissionError", "OSError"}

\* ProjectAnalyzer.analyze up to the call of _analyze_directory:
\* root_path.exists() and root_path.is_dir() answer, or the stat() of one
\* of them raises and nothing catches it
Analyze ==
    /\ wpc = "init"
    /\ \E stat \in {"ok"} \cup StatErrors :
         IF stat # "ok"
         THEN /\ raised' = Some(stat)
              /\ wpc' = "raised"
              /\ stack' = stack
         ELSE IF root.kind = "missing"
         THEN /\ raised' = Some("FileNotFoundError")
              /\ wpc' = "raised"
              /\ stack' = stack
         ELSE IF root.kind # "dir"
         THEN /\ raised' = Some("NotADirectoryError")
              /\ wpc' = "raised"
              /\ stack' = stack
         ELSE /\ raised' = raised
              /\ wpc' = "walking"
              /\ stack' = <<Frame(<<root.name>>, root)>>
    /\ UNCHANGED <<root, file_extensions, ignore_dirs, handed, result, env, first,
                   calls>>
    /\ UNCHANGED <<avars, mvars>>

\* _analyze_directory: DirectoryStats(path=dir_path) is made, then
\* sorted(dir_path.iterdir()); a PermissionError returns the empty node,
\* which is the return of a directory without items; any other error is
\* not caught and leaves analyze()
ListDirectory ==
    /\ wpc = "walking" /\ Top.items = None
    /\ \E listing \in ListOutcomes, listed \in Listings(Top.entry.entries) :
         /\ Repeats(Top.dir_path, [listing |-> listing])
         /\ env' = Known(Top.dir_path, [listing |-> listing])
         /\ calls' = OnceMore(Top.dir_path)
         /\ IF listing \notin ListingHandled
            THEN /\ raised' = Some(listing)
                 /\ wpc' = "raised"
                 /\ stack' = stack
            ELSE /\ raised' = raised
                 /\ wpc' = wpc
                 /\ stack' = WithTop([Top EXCEPT
                                        !.items = Some(listed_items(listing, listed))])
    /\ UNCHANGED <<root, file_extensions, ignore_dirs, handed, result, first>>
    /\ UNCHANGED <<avars, mvars>>

\* one iteration of the loop of _analyze_directory on an item that is a file
VisitFile ==
    /\ wpc = "walking" /\ Top.items # None /\ Top.next <= Len(Top.items[1])
    /\ Item.kind = "file"
    /\ LET item_path == Append(Top.dir_path, Item.name)
       IN IF should_analyze_file(item_path, file_extensions)
          THEN /\ \E file_stats_ \in analyze_file(item_path, ContentOf(Item.name)) :
                    /\ Repeats(item_path, [returned |-> file_stats_])
                    /\ env' = Known(item_path, [returned |-> file_stats_])
                    /\ calls' = OnceMore(item_path)
                    /\ stack' = WithTop([Top EXCEPT
                                           !.next = @ + 1,
                                           !.dir_stats.files =
                                               append_file_stats(@, file_stats_)])
               /\ handed' = IF get_analyzer_for_file(item_path) # None
                            THEN handed \cup {item_path} ELSE handed
          ELSE /\ stack' = WithTop([Top EXCEPT !.next = @ + 1])
               /\ handed' = handed
               /\ env' = env
               /\ calls' = calls
    /\ UNCHANGED <<root, file_extensions, ignore_dirs, wpc, result, raised, first>>
    /\ UNCHANGED <<avars, mvars>>

\* an iteration on a directory that appends the node of the subdirectory to
\* the subdirectories of its parent when the call on it is made
VisitDirectoryAttachesAtOnce ==
    /\ wpc = "walking" /\ Top.items # None /\ Top.next <= Len(Top.items[1])
    /\ Item.kind = "dir"
    /\ LET sub_path == Append(Top.dir_path, Item.name)
       IN IF should_ignore_dir(sub_path, ignore_dirs)
          THEN stack' = WithTop([Top EXCEPT !.next = @ + 1])
          ELSE stack' = Append(WithTop([Top EXCEPT
                                          !.dir_stats.subdirectories =
                                              Append(@, DirectoryStats(sub_path))]),
                               Frame(sub_path, Item))
    /\ UNCHANGED <<root, file_extensions, ignore_dirs, handed, wpc, result, raised,
                   env, first, calls>>
    /\ UNCHANGED <<avars, mvars>>

\* one iteration on an item that is a directory: it is skipped, or
\* _analyze_directory is called on it
VisitDirectory ==
    /\ wpc = "walking" /\ Top.items # None /\ Top.next <= Len(Top.items[1])
    /\ Item.kind = "dir"
    /\ LET sub_path == Append(Top.dir_path, Item.name)
       IN IF should_ignore_dir(sub_path, ignore_dirs)
          THEN stack' = WithTop([Top EXCEPT !.next = @ + 1])
          ELSE stack' = Append(stack, Frame(sub_path, Item))
    /\ UNCHANGED <<root, file_extensions, ignore_dirs, handed, wpc, result, raised,
                   env, first, calls>>
    /\ UNCHANGED <<avars, mvars>>

\* one iteration on an item that is neither
VisitOther ==
    /\ wpc = "walking" /\ Top.items # None /\ Top.next <= Len(Top.items[1])
    /\ Item.kind \notin {"file", "dir"}
    /\ stack' = WithTop([Top EXCEPT !.next = @ + 1])
    /\ UNCHANGED <<root, file_extensions, ignore_dirs, handed, wpc, result, raised,
                   env, first, calls>>
    /\ UNCHANGED <<avars, mvars>>

\* the return of a recursive call of _analyze_directory and the end of the
\* iteration that made it: the node is appended if it holds files
ReturnSubdirectory ==
    /\ wpc = "walking" /\ Len(stack) > 1
    /\ Top.items # None /\ Top.next > Len(Top.items[1])
    /\ LET subdir_stats == Top.dir_stats
           caller       == stack[Len(stack) - 1]
       IN stack' = Append(SubSeq(stack, 1, Len(stack) - 2),
                          [caller EXCEPT
                              !.next = @ + 1,
                              !.dir_stats.subdirectories =
                                  attach_subdirectory(@, subdir_stats)])
    /\ UNCHANGED <<root, file_extensions, ignore_dirs, handed, wpc, result, raised,
                   env, first, calls>>
    /\ UNCHANGED <<avars, mvars>>

\* the return of the outermost call and the rest of ProjectAnalyzer.analyze:
\* stats.sort_files_by_size() and the return of the tree
ReturnRoot ==
    /\ wpc = "walking" /\ Len(stack) = 1
    /\ Top.items # None /\ Top.next > Len(Top.items[1])
    /\ result' = Some(sort_files_by_size(Top.dir_stats))
    /\ stack' = <<>>
    /\ wpc' = "returned"
    /\ UNCHANGED <<root, file_extensions, ignore_dirs, handed, raised, env, first,
                   calls>>
    /\ UNCHANGED <<avars, mvars>>

\* an iteration in which item.is_file() or item.is_dir() raises: the
\* directory could be listed but the stat() of its entry fails (the
\* directory is readable and not searchable, the path is too long, the
\* device fails), and nothing catches the error
StatFails ==
    /\ wpc = "walking" /\ Top.items # None /\ Top.next <= Len(Top.items[1])
    /\ \E error \in StatErrors : raised' = Some(error)
    /\ wpc' = "raised"
    /\ UNCHANGED <<root, file_extensions, ignore_dirs, stack, handed, result, env, first,
                   calls>>
    /\ UNCHANGED <<avars, mvars>>

NextWalker ==
    \/ Analyze
    \/ ListDirectory
    \/ VisitFile
    \/ VisitDirectory
    \/ VisitOther
    \/ StatFails
    \/ ReturnSubdirectory
    \/ ReturnRoot

\* the file_extensions arguments of the walks followed step by step: none,
\* and a set that names the extensions no registered analyzer supports
BuildExtensionArguments ==
    { None,
      Some({<<".", "j", "s">>, <<".", "m", "d">>,
            <<".", "m", "a", "r", "k", "d", "o", "w", "n">>}) }

\* ProjectAnalyzer(root_path, file_extensions) with the default ignore_dirs
InitBuild ==
    /\ root \in Roots
    /\ file_extensions \in BuildExtensionArguments
    /\ ignore_dirs = ignore_dirs_of({})
    /\ stack = <<>>
    /\ handed = {}
    /\ wpc = "init"
    /\ result = None
    /\ raised = None
    /\ env = <<>>
    /\ first = None
    /\ calls = <<>>
    /\ IdleAnalyzer
    /\ IdleModel

\* the same on the smaller trees, for the walks followed to their end
InitFair ==
    /\ root \in RootsUpTo(MaxEntriesTwice)
    /\ file_extensions \in BuildExtensionArguments
    /\ ignore_dirs = ignore_dirs_of({})
    /\ stack = <<>>
    /\ handed = {}
    /\ wpc = "init"
    /\ result = None
    /\ raised = None
    /\ env = <<>>
    /\ first = None
    /\ calls = <<>>
    /\ IdleAnalyzer
    /\ IdleModel

(***************************************************************************)
(* A caller that runs analyze() a second time on the same ProjectAnalyzer: *)
(* on the same tree on disk, or on that tree less some of the files whose  *)
(* analysis raised. What a path did in the first run it does in the second.*)
(***************************************************************************)
InitTwice ==
    /\ root \in RootsUpTo(MaxEntriesTwice)
    /\ file_extensions \in ExtensionArguments
    /\ \E extra \in IgnoreArguments : ignore_dirs = ignore_dirs_of(extra)
    /\ stack = <<>>
    /\ handed = {}
    /\ wpc = "init"
    /\ result = None
    /\ raised = None
    /\ env = <<>>
    /\ first = None
    /\ calls = <<>>
    /\ IdleAnalyzer
    /\ IdleModel

\* the files on which analyzer.analyze() raised
Failed ==
    {p \in DOMAIN env :
        /\ get_analyzer_for_file(p) # None
        /\ "returned" \in DOMAIN env[p]
        /\ env[p].returned = None}

RECURSIVE Without(_, _, _)
\* the directory entry, of path dir_path, less the files of the paths gone
Without(entry, dir_path, gone) ==
    [entry EXCEPT !.entries =
        { IF e.kind = "dir" THEN Without(e, Append(dir_path, e.name), gone) ELSE e :
            e \in {x \in entry.entries :
                      ~(x.kind = "file" /\ Append(dir_path, x.name) \in gone)} }]

\* analyze() is called again, nothing on disk having changed
RunAgain ==
    /\ wpc = "returned" /\ first = None
    /\ first' = Some([tree |-> result[1], gone |-> {}])
    /\ stack' = <<Frame(<<root.name>>, root)>>
    /\ wpc' = "walking"
    /\ result' = None
    /\ calls' = <<>>
    /\ UNCHANGED <<root, file_extensions, ignore_dirs, handed, raised, env>>
    /\ UNCHANGED <<avars, mvars>>

\* analyze() is called again after some of the files whose analysis raised
\* were removed from disk
RunAgainWithout ==
    /\ wpc = "returned" /\ first = None
    /\ \E gone \in SUBSET Failed \ {{}} :
         /\ first' = Some([tree |-> result[1], gone |-> gone])
         /\ stack' = <<Frame(<<root.name>>, Without(root, <<root.name>>, gone))>>
    /\ wpc' = "walking"
    /\ result' = None
    /\ calls' = <<>>
    /\ UNCHANGED <<root, file_extensions, ignore_dirs, handed, raised, env>>
    /\ UNCHANGED <<avars, mvars>>

NextTwice ==
    \/ NextWalker
    \/ RunAgain
    \/ RunAgainWithout

(***************************************************************************)
(* Specifications.                                                         *)
(***************************************************************************)
\* the analyzers, each on one file
SpecAnalyzer == InitAnalyzer /\ [][NextAnalyzer]_vars

\* a DirectoryStats tree and its caller
SpecModel == InitModel /\ [][NextModel]_vars

\* ProjectAnalyzer.analyze on a directory tree
SpecWalker == InitWalker /\ [][NextWalker]_vars

\* ProjectAnalyzer.analyze run twice
SpecTwice == InitTwice /\ [][NextTwice]_vars

\* ProjectAnalyzer.analyze with the default ignore_dirs, the tree under
\* construction followed step by step
SpecBuild == InitBuild /\ [][NextWalker]_vars

\* the walk as the interpreter runs it: analyze() is one sequential call, and
\* the step it is at is taken
FairBuild == InitFair /\ [][NextWalker]_vars /\ WF_vars(NextWalker)

\* the percentages of the models
SpecPercent == InitPercent /\ [][NextPercent]_vars

\* MarkdownAnalyzer alone
SpecMarkdown == InitMarkdown /\ [][NextMarkdown]_vars

\* one GenericAnalyzer called on a file and then on another
SpecSequence == InitSequence /\ [][NextSequence]_vars

Init == InitAnalyzer \/ InitModel \/ InitWalker \/ InitTwice \/ InitPercent
        \/ InitMarkdown \/ InitSequence \/ InitBuild

Next == NextAnalyzer \/ NextModel \/ NextTwice \/ NextPercent \/ NextSequence

Spec == Init /\ [][Next]_vars

(***************************************************************************)
(* What the claims are stated with.                                        *)
(***************************************************************************)
\* a line that holds something else than whitespace
NonBlank(line) == \E i \in 1..Len(line) : line[i] \notin Whitespace

\* the text before and after the blank of a multi-line CommentStyle value
MarkerPair(marker) ==
    LET i == CHOOSE k \in 1..Len(marker) : marker[k] = " "
    IN [start |-> SubSeq(marker, 1, i - 1), end |-> SubSeq(marker, i + 1, Len(marker))]

\* the styles of COMMENT_SYNTAX that list the language
StylesOf(lang) == {s \in DOMAIN COMMENT_SYNTAX : lang \in COMMENT_SYNTAX[s].languages}

\* the (start, end) pairs of the multi-line comments of the language
MultiLinePairs(lang) ==
    {MarkerPair(m) : m \in UNION {COMMENT_SYNTAX[s].multi_line : s \in StylesOf(lang)}}

\* the single-line markers of the language
SingleLineTexts(lang) == UNION {COMMENT_SYNTAX[s].single_line : s \in StylesOf(lang)}

\* the places of the text t in the line
Occurrences(line, t) ==
    {i \in 1..(Len(line) - Len(t) + 1) : SubSeq(line, i, i + Len(t) - 1) = t}

\* the line holds a start marker of the language
HoldsStart(line, lang) ==
    \E pair \in MultiLinePairs(lang) : Occurrences(line, pair.start) # {}

\* the line holds an end marker of the language
HoldsEnd(line, lang) ==
    \E pair \in MultiLinePairs(lang) : Occurrences(line, pair.end) # {}

\* the line holds a comment that opens and closes in it
OpensAndCloses(line, lang) ==
    \E pair \in MultiLinePairs(lang) :
       \E i \in Occurrences(line, pair.start), j \in Occurrences(line, pair.end) :
          j >= i + Len(pair.start)

\* the k-th line of the loop was counted as a comment
CountedComment(k) == history[k].after.comment_lines = history[k].before.comment_lines + 1

\* the k-th line of the loop left the comment count as it was
NotCounted(k) == history[k].after.comment_lines = history[k].before.comment_lines

\* a line of code without any marker
PlainCode(line) == line = <<"x", "\n">>

\* the loop of GenericAnalyzer.analyze has passed k lines
Scanned == analyzer = "generic" /\ pc \in {"scan", "done"}

(***************************************************************************)
(* Claims on the analyzers (SpecAnalyzer).                                 *)
(***************************************************************************)
\* C1: every FileStats an analyzer returns has code_lines + comment_lines +
\* blank_lines = total_lines and no negative count.  PythonAnalyzer breaks
\* it: a comment count above total - blank is kept while code is set to 0.
C1_CountsAddUp ==
    file_stats # None =>
        LET s == file_stats[1]
        IN /\ s.code_lines + s.comment_lines + s.blank_lines = s.total_lines
           /\ s.total_lines >= 0 /\ s.code_lines >= 0
           /\ s.comment_lines >= 0 /\ s.blank_lines >= 0

\* C5: a non-blank line met outside a multi-line comment that opens and
\* closes a comment adds exactly 1 to the comment count and leaves the
\* scanner outside, so a plain line of code after it is counted as code.
C5_SameLineComment ==
    Scanned =>
        \A k \in 1..Len(history) :
            ( /\ ~history[k].before.in_multiline_comment
              /\ NonBlank(lines[k])
              /\ OpensAndCloses(lines[k], language) )
            => /\ CountedComment(k)
               /\ ~history[k].after.in_multiline_comment
               /\ history[k].after.multiline_end_marker = <<>>
               /\ (k < Len(history) /\ PlainCode(lines[k + 1])) => NotCounted(k + 1)

\* C5 witness: ["/*x*/", "x"] in a JavaScript file gives comment = 1, code = 1
C5_Witness ==
    /\ analyzer = "generic" /\ pc = "done" /\ language = "JavaScript"
    /\ lines = << <<"/", "*", "x", "*", "/", "\n">>, <<"x", "\n">> >>
    /\ file_stats[1].comment_lines = 1
    /\ file_stats[1].code_lines = 1

\* the line j of the loop opened a multi-line comment
Opened(j) ==
    /\ ~history[j].before.in_multiline_comment
    /\ history[j].after.in_multiline_comment

\* no line from a to b holds an end marker of the language
NoEndBetween(a, b) == \A q \in a..b : ~HoldsEnd(lines[q], language)

\* C6 as stated: once a multi-line comment is opened, every line up to and
\* with the one that holds the end marker, or up to the end of the file, is
\* counted as a comment, whatever it holds.
C6_EveryLineOfRegion ==
    Scanned =>
        \A j \in 1..Len(history), m \in 1..Len(history) :
            (j < m /\ Opened(j) /\ NoEndBetween(j + 1, m - 1)) => CountedComment(m)

\* C6 amended: every line of the region that is not blank is counted as a
\* comment; a blank one is not; the end of the file inside the region ends
\* the analysis with a FileStats.
C6_NonBlankLinesOfRegion ==
    /\ Scanned =>
         \A j \in 1..Len(history), m \in 1..Len(history) :
             (j < m /\ Opened(j) /\ NoEndBetween(j + 1, m - 1))
             => IF NonBlank(lines[m]) THEN CountedComment(m) ELSE NotCounted(m)
    /\ (analyzer = "generic" /\ pc = "done") =>
         /\ file_stats # None
         /\ file_stats[1].comment_lines = comment_lines

\* C6 witness: a comment opened on the first of three lines and never
\* closed; the two lines after it, one of them with a single-line marker,
\* are comments
C6_Witness ==
    /\ analyzer = "generic" /\ pc = "done" /\ language = "JavaScript"
    /\ Len(lines) = 3
    /\ Opened(1)
    /\ PlainCode(lines[2])
    /\ lines[3] = <<"x", "/", "/", "\n">>
    /\ in_multiline_comment
    /\ file_stats[1].comment_lines = 3

\* C7: inside a multi-line comment each non-blank line adds exactly 1 to the
\* comment count; the scanner leaves the comment exactly on a line that
\* holds the remembered end marker, wherever, and otherwise keeps the
\* marker; a plain line of code after the closing line is counted as code.
C7_InsideComment ==
    Scanned =>
        \A k \in 1..Len(history) :
            (history[k].before.in_multiline_comment /\ NonBlank(lines[k]))
            => LET marker == history[k].before.multiline_end_marker
                   closes == Occurrences(lines[k], marker) # {}
               IN /\ marker \in {pair.end : pair \in MultiLinePairs(language)}
                  /\ CountedComment(k)
                  /\ history[k].after.in_multiline_comment = ~closes
                  /\ history[k].after.multiline_end_marker = IF closes THEN <<>> ELSE marker
                  /\ (closes /\ k < Len(history) /\ PlainCode(lines[k + 1]))
                     => NotCounted(k + 1)

\* C7 witness: ["/*x", "*/x/*", "x"]: the second line is inside, holds the
\* end marker before a further start marker, and closes; the third is code
C7_Witness ==
    /\ analyzer = "generic" /\ pc = "done" /\ language = "JavaScript"
    /\ Len(lines) = 3
    /\ Opened(1)
    /\ lines[2] = <<"*", "/", "x", "/", "*", "\n">>
    /\ ~history[2].after.in_multiline_comment
    /\ PlainCode(lines[3])
    /\ file_stats[1].comment_lines = 2
    /\ file_stats[1].code_lines = 1

\* C8: a non-blank line outside a multi-line comment that holds no
\* multi-line start marker is counted as a comment exactly if its stripped
\* text starts with a single-line marker of the language.
C8_SingleLineComment ==
    Scanned =>
        \A k \in 1..Len(history) :
            ( /\ ~history[k].before.in_multiline_comment
              /\ NonBlank(lines[k])
              /\ ~HoldsStart(lines[k], language) )
            => /\ IF \E m \in SingleLineTexts(language) : StartsWith(Strip(lines[k]), m)
                  THEN CountedComment(k) ELSE NotCounted(k)
               /\ ~history[k].after.in_multiline_comment

\* C8 witness: ["//x", "x//"] in a JavaScript file: the first is a comment,
\* the second, with the marker behind the code, is code
C8_Witness ==
    /\ analyzer = "generic" /\ pc = "done" /\ language = "JavaScript"
    /\ lines = << <<"/", "/", "x", "\n">>, <<"x", "/", "/", "\n">> >>
    /\ CountedComment(1)
    /\ NotCounted(2)
    /\ file_stats[1].code_lines = 1

\* C9: for a language without comment syntax the generic analyzer counts no
\* comment: comment_lines = 0 and code_lines = total_lines - blank_lines.
C9_NoSyntaxNoComment ==
    (Scanned /\ StylesOf(language) = {}) =>
        /\ comment_lines = 0
        /\ ~in_multiline_comment
        /\ file_stats # None =>
             /\ file_stats[1].comment_lines = 0
             /\ file_stats[1].code_lines =
                    file_stats[1].total_lines - file_stats[1].blank_lines

\* C9 witness: an Erlang file (mapped, without syntax) of three lines that
\* start with #, // and /*
C9_Witness ==
    /\ analyzer = "generic" /\ pc = "done" /\ language = "Erlang"
    /\ lines = << <<"#", "x", "\n">>, <<"/", "/", "x", "\n">>, <<"/", "*", "x", "\n">> >>
    /\ file_stats[1].code_lines = 3

(***************************************************************************)
(* Claims on the DirectoryStats tree (SpecModel).                          *)
(***************************************************************************)
\* the (node, index) pairs of the FileStats in the tree d
FilePlaces(d) ==
    UNION { {<<p, i>> : i \in 1..Len(NodeAt(d, p).files)} : p \in Paths(d) }

\* the sum of a count over every FileStats in the tree d, taken file by file
\* without going down the tree
FlatSum(d, count) ==
    Cardinality(UNION { {<<pi, n>> : n \in 1..NodeAt(d, pi[1]).files[pi[2]][count]} :
                        pi \in FilePlaces(d) })

\* the sum of a count over the files directly in the node d
DirectSum(d, count) ==
    Cardinality(UNION { {<<i, n>> : n \in 1..d.files[i][count]} : i \in 1..Len(d.files) })

\* the sum of FlatSum over the immediate subdirectories of the node d
ChildrenSum(d, count) ==
    Cardinality(UNION { {<<i, u>> : u \in 1..FlatSum(d.subdirectories[i], count)} :
                        i \in 1..Len(d.subdirectories) })

\* the number of FileStats in the immediate subdirectories of the node d
ChildrenFiles(d) ==
    Cardinality(UNION { {<<i, pi>> : pi \in FilePlaces(d.subdirectories[i])} :
                        i \in 1..Len(d.subdirectories) })

\* C2: each aggregate read on a node is the sum over the node's own files
\* plus the sum of the same aggregate over its immediate subdirectories, on
\* the tree as it is when the aggregate is read.
C2_AggregatesAreSums ==
    last_op.op = "query" =>
        LET d == NodeAt(tree, last_op.path)
            r == last_op.result
        IN /\ r.total_files = Len(d.files) + ChildrenFiles(d)
           /\ r.total_lines = DirectSum(d, "total_lines") + ChildrenSum(d, "total_lines")
           /\ r.total_code_lines = DirectSum(d, "code_lines") + ChildrenSum(d, "code_lines")
           /\ r.total_comment_lines =
                  DirectSum(d, "comment_lines") + ChildrenSum(d, "comment_lines")
           /\ r.total_blank_lines =
                  DirectSum(d, "blank_lines") + ChildrenSum(d, "blank_lines")

\* C2 witness: the totals of the root are read when the root holds a file,
\* its subdirectory holds none and the subdirectory of that one holds two
C2_Witness ==
    /\ last_op.op = "query" /\ last_op.path = <<>>
    /\ Len(tree.files) = 1
    /\ Len(tree.subdirectories) = 1
    /\ tree.subdirectories[1].files = <<>>
    /\ Len(tree.subdirectories[1].subdirectories) = 1
    /\ Len(tree.subdirectories[1].subdirectories[1].files) = 2
    /\ last_op.result.total_files = 3
    /\ last_op.result.total_lines = 7
    /\ last_op.result.total_blank_lines = 2

\* after is before in an order that is a stable sort by total_lines, largest
\* first: the same files, none before a larger one, equal ones in the order
\* they had
IsStableSortBySize(after, before) ==
    /\ Len(after) = Len(before)
    /\ \E perm \in Permutations(1..Len(before)) :
          /\ \A i \in 1..Len(after) : after[i] = before[perm[i]]
          /\ \A i \in 1..Len(after), j \in 1..Len(after) :
                i < j => /\ after[i].total_lines >= after[j].total_lines
                         /\ after[i].total_lines = after[j].total_lines
                            => perm[i] < perm[j]

\* C4: after sort_files_by_size() on a node, that node and every node below
\* it hold the files they held, in the order of a stable sort by total_lines
\* from the largest to the smallest; the nodes stay where they were.
C4_StableSortBySize ==
    last_op.op = "sort" =>
        LET was == NodeAt(last_op.before, last_op.path)
            now == NodeAt(tree, last_op.path)
        IN /\ Paths(now) = Paths(was)
           /\ \A q \in Paths(was) :
                 IsStableSortBySize(NodeAt(now, q).files, NodeAt(was, q).files)

\* C4 witness: the root is sorted and the files of its subdirectory, sizes
\* [1, 3, 3] and the two of size 3 different, come out as [3, 3, 1] with the
\* two files of size 3 in the order they had
C4_Witness ==
    /\ last_op.op = "sort" /\ last_op.path = <<>>
    /\ Len(tree.subdirectories) = 1
    /\ LET was == last_op.before.subdirectories[1].files
           now == tree.subdirectories[1].files
       IN /\ Len(was) = 3
          /\ was[1].total_lines = 1 /\ was[2].total_lines = 3 /\ was[3].total_lines = 3
          /\ was[2] # was[3]
          /\ now = <<was[2], was[3], was[1]>>

(***************************************************************************)
(* Claims on the walk (SpecWalker).                                        *)
(***************************************************************************)
\* the DirectoryStats trees that exist now: the one returned and the ones
\* the calls in progress are building
TreesNow ==
    (IF result # None THEN {result[1]} ELSE {})
    \cup {stack[k].dir_stats : k \in 1..Len(stack)}

\* C3: every node in a subdirectories list of the returned tree, at any
\* depth, holds at least one file in or below it.
C3_NoEmptySubdirectory ==
    result # None =>
        \A p \in Paths(result[1]) :
            p # <<>> => FilePlaces(NodeAt(result[1], p)) # {}

\* the directories of the tree on disk that the walk enters: their paths
RECURSIVE EnteredDirs(_, _)
EnteredDirs(dir_path, entry) ==
    {dir_path} \cup
    UNION { IF e.kind = "dir"
               /\ e.name \notin ignore_dirs
               /\ e.name[1] # "."
            THEN EnteredDirs(Append(dir_path, e.name), e)
            ELSE {} : e \in entry.entries }

\* C3 witness: the root holds two directories and the walk entered both; the
\* one with a file is in the tree, the one without is not
C3_Witness ==
    /\ wpc = "returned"
    /\ Cardinality(root.entries) = 2
    /\ \A e \in root.entries : e.kind = "dir"
    /\ Cardinality(EnteredDirs(<<root.name>>, root)) = 3
    /\ Len(result[1].subdirectories) = 1
    /\ Len(result[1].subdirectories[1].files) = 1

\* the name starts with a dot
Hidden(name) == name[1] = "."

\* an analyzer of the walker supports the extension of the name
Claimed(name) == Lower(Suffix(name)) \in (PythonExtensions \cup GenericExtensions)

\* the paths of the FileStats in the trees that exist now
RECURSIVE FilePathsIn(_)
FilePathsIn(d) ==
    {d.files[i].path : i \in 1..Len(d.files)}
    \cup UNION {FilePathsIn(d.subdirectories[i]) : i \in 1..Len(d.subdirectories)}

FilesNow == UNION {FilePathsIn(d) : d \in TreesNow}

\* C10 as stated: a file is handed to an analyzer only if its name does not
\* start with a dot, its lower-cased extension is in the explicit extension
\* set when one was given, and an analyzer claims the extension; any other
\* file is absent from the result.
C10_OnlySelectedFiles ==
    \A item_path \in handed \cup FilesNow :
        /\ ~Hidden(Name(item_path))
        /\ file_extensions # None => Lower(Suffix(Name(item_path))) \in file_extensions[1]
        /\ Claimed(Name(item_path))

\* C10 amended: the extension set restricts the files when it is given and
\* not empty; an empty set is taken as no set.
C10_OnlySelectedFilesNonEmptySet ==
    \A item_path \in handed \cup FilesNow :
        LET ext == Lower(Suffix(Name(item_path)))
        IN /\ ~Hidden(Name(item_path))
           /\ (file_extensions # None /\ file_extensions[1] # {})
              => ext \in file_extensions[1]
           /\ ext \in PythonExtensions \cup GenericExtensions

\* C10 witness: with the set {.js, .md} the root held a.js, the hidden .h.js
\* and c.md, which no analyzer claims; a.js alone was handed over and is in
\* the result
C10_Witness ==
    /\ wpc = "returned"
    /\ file_extensions = Some({<<".", "j", "s">>, <<".", "m", "d">>})
    /\ {e.name : e \in root.entries} =
          {<<"a", ".", "j", "s">>, <<".", "h", ".", "j", "s">>, <<"c", ".", "m", "d">>}
    /\ \A e \in root.entries : e.kind = "file"
    /\ handed = {<<root.name, <<"a", ".", "j", "s">>>>}
    /\ Len(result[1].files) = 1

\* a directory name the walk has to skip: one of the built-in names, one of
\* the names the caller added, or a name that starts with a dot
Skipped(name) ==
    \/ name \in IGNORED_DIRS
    \/ name \in ignore_dirs \ IGNORED_DIRS
    \/ Hidden(name)

\* one of the directories from below the root down to position last of the
\* path has a name to skip
ThroughSkipped(path, last) == \E i \in 2..last : Skipped(path[i])

\* C11: no call of _analyze_directory is made on a directory that has a name
\* to skip or lies below one, and no node and no file of the trees being
\* built or returned, and no file handed to an analyzer, lies in or below
\* such a directory, at any depth; the root is exempt.
C11_SkippedDirectoriesNotEntered ==
    /\ \A k \in 1..Len(stack) :
          ~ThroughSkipped(stack[k].dir_path, Len(stack[k].dir_path))
    /\ \A d \in TreesNow : \A p \in Paths(d) :
          ~ThroughSkipped(NodeAt(d, p).path, Len(NodeAt(d, p).path))
    /\ \A item_path \in handed \cup FilesNow :
          ~ThroughSkipped(item_path, Len(item_path) - 1)

\* C11 witness: the caller added the name ext; the root holds ext, which
\* holds src, which holds a.js; the walk returned a tree without files and
\* without subdirectories and handed nothing to an analyzer
C11_Witness ==
    /\ wpc = "returned"
    /\ <<"e", "x", "t">> \in ignore_dirs
    /\ file_extensions = None
    /\ root.entries =
          {DirEntry(<<"e", "x", "t">>,
                    {DirEntry(<<"s", "r", "c">>, {FileEntry(<<"a", ".", "j", "s">>)})})}
    /\ result[1].files = <<>>
    /\ result[1].subdirectories = <<>>
    /\ handed = {}

\* the directories whose listing raised PermissionError
Denied ==
    {p \in DOMAIN env : "listing" \in DOMAIN env[p] /\ env[p].listing = "PermissionError"}

RECURSIVE EntryAt(_, _)
\* the entry reached from entry by the names
EntryAt(entry, names) ==
    IF names = <<>> THEN entry
    ELSE EntryAt(CHOOSE e \in entry.entries : e.name = Head(names), Tail(names))

\* C13: when the listing of a directory raises PermissionError the call of
\* _analyze_directory on it goes on without raising and returns the node
\* without files and subdirectories; the tree returned is that node if the
\* directory is the root; a directory below the root is in no subdirectories
\* list, and once analyze() has returned every sibling of it that the walk
\* does not skip was listed or handed to an analyzer.
C13_DeniedDirectoryIsEmptyNode ==
    /\ \A k \in 1..Len(stack) :
          (stack[k].dir_path \in Denied /\ stack[k].items # None)
          => /\ wpc = "walking"
             /\ stack[k].items = Some(<<>>)
             /\ stack[k].dir_stats = DirectoryStats(stack[k].dir_path)
    /\ \A d \in TreesNow : \A p \in Paths(d) :
          p # <<>> => NodeAt(d, p).path \notin Denied
    /\ (result # None /\ <<root.name>> \in Denied)
       => result[1] = DirectoryStats(<<root.name>>)
    /\ wpc = "returned"
       => \A p \in Denied :
             Len(p) > 1 =>
                LET up == SubSeq(p, 1, Len(p) - 1)
                IN \A e \in EntryAt(root, Tail(up)).entries :
                      /\ (e.kind = "dir" /\ ~Skipped(e.name))
                         => Append(up, e.name) \in DOMAIN env
                      /\ (e.kind = "file"
                          /\ should_analyze_file(Append(up, e.name), file_extensions)
                          /\ get_analyzer_for_file(Append(up, e.name)) # None)
                         => Append(up, e.name) \in handed

\* C13 witness: the root holds the directories ext and src, and each holds
\* a.js; the listing of ext, the first of the two, was denied and its file
\* was never handed to an analyzer; the tree returned has src, with its
\* file, as its only subdirectory
C13_Witness ==
    /\ wpc = "returned"
    /\ root.entries =
          {DirEntry(<<"e", "x", "t">>, {FileEntry(<<"a", ".", "j", "s">>)}),
           DirEntry(<<"s", "r", "c">>, {FileEntry(<<"a", ".", "j", "s">>)})}
    /\ Denied = {<<root.name, <<"e", "x", "t">>>>}
    /\ <<root.name, <<"e", "x", "t">>, <<"a", ".", "j", "s">>>> \notin handed
    /\ Len(result[1].subdirectories) = 1
    /\ result[1].subdirectories[1].path = <<root.name, <<"s", "r", "c">>>>
    /\ Len(result[1].subdirectories[1].files) = 1

\* C14: analyze() raises exactly when the root path does not exist
\* (FileNotFoundError) or is not a directory (NotADirectoryError); no error
\* met at a file or a directory during the walk leaves analyze().
C14_OnlyRootErrorsRaise ==
    /\ wpc = "raised"
       => \/ root.kind = "missing" /\ raised = Some("FileNotFoundError")
          \/ root.kind = "file" /\ raised = Some("NotADirectoryError")
    /\ (root.kind \in {"missing", "file"} /\ wpc # "init") => wpc = "raised"

(***************************************************************************)
(* Claims on the walk made twice (SpecTwice).                              *)
(***************************************************************************)
\* C12: a file on which analyzer.analyze() raised is in no tree being built
\* or returned, and the tree analyze() returns is the tree it returns once
\* such files are removed from disk, everything else behaving the same: the
\* other files and the directories have the statistics they would have
\* without them.
C12_FailedFileAsIfAbsent ==
    /\ \A item_path \in Failed : item_path \notin FilesNow
    /\ (wpc = "returned" /\ first # None /\ first[1].gone # {})
       => result[1] = first[1].tree

\* C12 witness: the root holds a.js and b.PY; the analysis of a.js raised and
\* the walk went on to b.PY, which is alone in the tree returned; a.js was
\* removed and the second run returned the same tree
C12_Witness ==
    /\ wpc = "returned"
    /\ first # None
    /\ first[1].gone = {<<root.name, <<"a", ".", "j", "s">>>>}
    /\ {e.name : e \in root.entries} = {<<"a", ".", "j", "s">>, <<"b", ".", "P", "Y">>}
    /\ Len(result[1].files) = 1
    /\ result[1].files[1].path = <<root.name, <<"b", ".", "P", "Y">>>>
    /\ result[1].files[1].total_lines = 4
    /\ result[1] = first[1].tree

\* C18: a second run of analyze() with the same parameters, nothing on
\* disk having changed and every path behaving as it did, returns the tree
\* the first run returned: the same nodes in the same order with the same
\* FileStats and the same aggregates, in whatever order iterdir() lists the
\* entries in either run.
C18_SecondRunSameTree ==
    (wpc = "returned" /\ first # None /\ first[1].gone = {})
    => /\ result[1] = first[1].tree
       /\ \A p \in Paths(result[1]) :
             Aggregates(NodeAt(result[1], p)) = Aggregates(NodeAt(first[1].tree, p))

\* C18 witness: the root holds a.js and b.PY, which iterdir() can list in two
\* orders; both runs returned, with b.PY, the larger, before a.js
C18_Witness ==
    /\ wpc = "returned"
    /\ first # None /\ first[1].gone = {}
    /\ {e.name : e \in root.entries} = {<<"a", ".", "j", "s">>, <<"b", ".", "P", "Y">>}
    /\ Len(result[1].files) = 2
    /\ result[1].files[1].path = <<root.name, <<"b", ".", "P", "Y">>>>
    /\ result[1].files[1].total_lines = 4
    /\ result[1].files[2].total_lines = 3
    /\ first[1].tree = result[1]

(***************************************************************************)
(* Claims on the failures inside the analyzers (SpecAnalyzer).             *)
(***************************************************************************)
\* C15: when ast.parse fails on a Python file that has lines, whatever the
\* failure, PythonAnalyzer.analyze goes on to the comment count and returns a
\* FileStats with the line counts of the file, has_docstring False,
\* num_classes 0 and num_functions 0.
C15_ParseFailureKeepsFile ==
    (analyzer = "python" /\ ast_info # None /\ ast_info[1].parsing # "ok")
    => /\ total_lines > 0
       /\ pc \in {"tokenize", "done"}
       /\ pc = "done"
          => /\ file_stats # None
             /\ file_stats[1].total_lines = total_lines
             /\ file_stats[1].blank_lines = blank_lines
             /\ file_stats[1].comment_lines = comment_lines
             /\ file_stats[1].language = "Python"
             /\ file_stats[1].has_docstring = Some(FALSE)
             /\ file_stats[1].num_classes = Some(0)
             /\ file_stats[1].num_functions = Some(0)

\* C15 witness: a file of three lines, a class, an indented statement and a
\* blank line, on which ast.parse raised SyntaxError, has its FileStats
\* with no class counted
C15_Witness ==
    /\ analyzer = "python" /\ pc = "done"
    /\ ast_info # None /\ ast_info[1].parsing = "SyntaxError"
    /\ Len(disk) = 3
    /\ PythonStatement(disk[1]) = "class"
    /\ PythonStatement(disk[2]) = "indented"
    /\ file_stats # None
    /\ file_stats[1].total_lines = 3
    /\ file_stats[1].blank_lines = 1
    /\ file_stats[1].num_classes = Some(0)

\* C16: whenever the tokenizer failed on a Python file, whatever the failure,
\* the comment_lines of the FileStats is the number of lines of the file
\* whose stripped text starts with #.
C16_TokenizerFailureFallsBack ==
    (analyzer = "python" /\ pc = "done" /\ tokenized # None
     /\ tokenized[1].tokenizing # "ok")
    => file_stats[1].comment_lines =
          Cardinality({i \in 1..Len(disk) : StartsWith(Strip(disk[i]), <<"#">>)})

\* C17: _count_lines opens the file as UTF-8 and, only when the bytes do not
\* decode, once more as latin-1; when the last open it made failed it
\* returns 0, 0 and no lines, and otherwise the lines it decoded with their
\* counts; in every case analyze() goes on with what it returned.
C17_CountLinesFailsSoft ==
    (analyzer # "none" /\ reads # None)
    => LET r == reads[1]
       IN /\ pc # "start"
          /\ r.opened \in {<<"utf-8">>, <<"utf-8", "latin-1">>}
          /\ Len(r.opened) = 2 => ~r.valid_utf8
          /\ ~r.valid_utf8 => (Len(r.opened) = 2 \/ r.failed)
          /\ r.failed => (r.total_lines = 0 /\ r.blank_lines = 0 /\ r.lines = 0)
          /\ total_lines = r.total_lines /\ blank_lines = r.blank_lines
          /\ (~r.failed /\ analyzer # "python")
             => LET text == IF r.valid_utf8 THEN disk ELSE decode_latin1(disk)
                IN /\ lines = text
                   /\ r.total_lines = Len(disk)
                   /\ r.blank_lines =
                         Cardinality({i \in 1..Len(text) : ~NonBlank(text[i])})

\* C17 witness: a.yml holds a line that is the byte 0xA0 and a line that is
\* that byte before #x; the read as UTF-8 failed, the file was read as
\* latin-1 and the first line is counted blank, the second comment
C17_Witness ==
    /\ analyzer = "generic" /\ pc = "done"
    /\ disk = <<<<ByteA0, "\n">>, <<ByteA0, "#", "x", "\n">>>>
    /\ reads # None
    /\ reads[1].opened = <<"utf-8", "latin-1">>
    /\ ~reads[1].failed
    /\ file_stats # None
    /\ file_stats[1].total_lines = 2
    /\ file_stats[1].blank_lines = 1
    /\ file_stats[1].comment_lines = 1

(***************************************************************************)
(* Claims on the percentages (SpecPercent).                                *)
(***************************************************************************)
\* the percentages read last, each with the part and the total it is of
PercentagesRead ==
    IF last_op.op = "file_percentages"
    THEN LET f == NodeAt(tree, last_op.path).files[last_op.index]
         IN { <<last_op.result.code_percentage, f.code_lines, f.total_lines>>,
              <<last_op.result.comment_percentage, f.comment_lines, f.total_lines>> }
    ELSE IF last_op.op = "directory_percentages"
    THEN LET d == NodeAt(tree, last_op.path)
         IN { <<last_op.result.code_percentage,
                FlatSum(d, "code_lines"), FlatSum(d, "total_lines")>>,
              <<last_op.result.comment_percentage,
                FlatSum(d, "comment_lines"), FlatSum(d, "total_lines")>>,
              <<last_op.result.blank_percentage,
                FlatSum(d, "blank_lines"), FlatSum(d, "total_lines")>> }
    ELSE {}

\* the float x times the int total, computed without rounding, and the int
\* part * 100, both as the bits of a multiple of 2^x.exp
ScaledPercentage(x, total) == BitsTimes(x.mant, total, 0)

ScaledPart(x, part) == BitsShift(NatBits(part * 100), 0 - x.exp)

\* C19 as stated: a percentage is 0 when the total is 0, and otherwise
\* percentage * total_lines is part * 100.
C19_PercentageIsExact ==
    \A r \in PercentagesRead :
        IF r[3] = 0 THEN r[1] = FloatZero
        ELSE /\ r[1].exp <= 0
             /\ ScaledPercentage(r[1], r[3]) = ScaledPart(r[1], r[2])

\* C19 amended: a percentage is 0.0 when the total is 0, and otherwise it is
\* the binary64 product of the binary64 quotient part / total by 100, which
\* is part * 100 / total within a relative error of 2^-(MantissaBits - 2).
C19_PercentageWithinTolerance ==
    \A r \in PercentagesRead :
        IF r[3] = 0 THEN r[1] = FloatZero
        ELSE /\ r[1].exp <= 0
             /\ ~BitsLess(ScaledPart(r[1], r[2]),
                          BitsShift(BitsDistance(ScaledPercentage(r[1], r[3]),
                                                 ScaledPart(r[1], r[2])),
                                    MantissaBits - 2))
             /\ r[2] > 0 => Len(r[1].mant) = MantissaBits

\* C19 witness: the percentages of the root were read when its only file has
\* 0 lines and its subdirectory a file of 1 line of code, 1 of comment and 1
\* blank: each is 33.33333333333333, whose product by 3 is not 100
C19_Witness ==
    /\ last_op.op = "directory_percentages" /\ last_op.path = <<>>
    /\ Len(tree.files) = 1 /\ tree.files[1].total_lines = 0
    /\ Len(tree.subdirectories) = 1
    /\ tree.subdirectories[1].files[1].total_lines = 3
    /\ tree.subdirectories[1].files[1].code_lines = 1
    /\ tree.subdirectories[1].files[1].comment_lines = 1
    /\ last_op.result.code_percentage = last_op.result.blank_percentage
    /\ last_op.result.code_percentage.exp = 0 - 47
    /\ ScaledPercentage(last_op.result.code_percentage, 3)
       # ScaledPart(last_op.result.code_percentage, 1)

(***************************************************************************)
(* Claims on the choice of the analyzer (SpecWalker).                      *)
(***************************************************************************)
\* the analyzers, by their place in [PythonAnalyzer, GenericAnalyzer], that
\* claim the extension ext
Claiming(ext) ==
    {k \in 1..Len(Analyzers) : ext \in Analyzers[k].supported_extensions}

\* the FileStats f of a file of extension ext is one made by the analyzer at
\* place k
MadeBy(k, ext, f) ==
    IF Analyzers[k].kind = "python"
    THEN /\ f.language = "Python"
         /\ f.has_docstring # None /\ f.num_classes # None /\ f.num_functions # None
    ELSE /\ f.language = LANGUAGE_MAP[ext]
         /\ f.has_docstring = None /\ f.num_classes = None /\ f.num_functions = None

\* C20: a file handed to _analyze_file is analysed by the first analyzer, in
\* the order [PythonAnalyzer, GenericAnalyzer], that claims its lower-cased
\* extension, and by none when none claims it; every file of the result whose
\* extension is .py, .pyw or .pyi in any case has language "Python" and
\* non-null has_docstring, num_classes and num_functions.
C20_FirstClaimingAnalyzerUsed ==
    /\ \A p \in DOMAIN env :
          "returned" \in DOMAIN env[p] =>
              LET ext   == Lower(Suffix(Name(p)))
                  able  == Claiming(ext)
                  given == env[p].returned
              IN /\ (p \in handed) <=> (able # {})
                 /\ given # None =>
                       \E k \in able :
                           /\ \A j \in able : k <= j
                           /\ given[1].path = p
                           /\ MadeBy(k, ext, given[1])
    /\ result # None =>
          \A pi \in FilePlaces(result[1]) :
              LET f == NodeAt(result[1], pi[1]).files[pi[2]]
              IN Lower(Suffix(Name(f.path))) \in PythonExtensions =>
                    /\ f.language = "Python"
                    /\ f.has_docstring # None
                    /\ f.num_classes # None
                    /\ f.num_functions # None

\* C20 witness: the walk returned a tree whose root holds b.PY, made by the
\* Python analyzer, and a.js, made by the generic analyzer
C20_Witness ==
    /\ wpc = "returned" /\ result # None
    /\ Len(result[1].files) = 2
    /\ \E i, j \in 1..2 :
          /\ Name(result[1].files[i].path) = <<"b", ".", "P", "Y">>
          /\ result[1].files[i].language = "Python"
          /\ result[1].files[i].has_docstring = Some(TRUE)
          /\ result[1].files[i].num_classes = Some(1)
          /\ result[1].files[i].num_functions = Some(1)
          /\ result[1].files[i].path \in handed
          /\ Name(result[1].files[j].path) = <<"a", ".", "j", "s">>
          /\ result[1].files[j].language = "JavaScript"
          /\ result[1].files[j].has_docstring = None
          /\ result[1].files[j].path \in handed

(***************************************************************************)
(* Claims on MarkdownAnalyzer (SpecMarkdown).                              *)
(***************************************************************************)
\* the fence lines among the first k lines
FencesUpTo(k) == {j \in 1..k : IsFence(lines[j])}

\* the lines the loop has passed that open a fenced block: fence lines with
\* an even number of fence lines before them
Openings == {k \in FencesUpTo(idx - 1) : Cardinality(FencesUpTo(k - 1)) % 2 = 0}

\* the lines the loop has passed that are no fence and outside every block
Outside ==
    {k \in 1..(idx - 1) : ~IsFence(lines[k]) /\ Cardinality(FencesUpTo(k - 1)) % 2 = 0}

\* the sum of Number(k) over the lines k of the set
SumOn(ks, Number(_)) == Cardinality(UNION { {<<k, n>> : n \in 1..Number(k)} : k \in ks })

LinksOn(k) == CountLinks(RStripNewlines(lines[k]), 1)

ImagesOn(k) == CountImages(RStripNewlines(lines[k]), 1)

HeadingOn(k) == IF HeadingLevel(RStripNewlines(lines[k])) > 0 THEN 1 ELSE 0

TableOn(k) ==
    IF /\ Contains(lines[k], <<"|">>)
       /\ k < Len(lines)
       /\ IsTableDivider(Strip(lines[k + 1]))
    THEN 1 ELSE 0

\* C21: in the loop of MarkdownAnalyzer.analyze and after it, the fenced
\* state is the parity of the fence lines passed, code_block_count is the
\* number of fence lines passed that were met outside a block (openings, not
\* closings), and the headings, links, images and tables counted are those
\* of the lines passed that are no fence and outside every block.
C21_FencesToggleAndHide ==
    (analyzer = "markdown" /\ pc \in {"scan", "done"}) =>
        /\ in_fenced_code = (Cardinality(FencesUpTo(idx - 1)) % 2 = 1)
        /\ code_block_count = Cardinality(Openings)
        /\ markdown_counts.heading_lines = SumOn(Outside, HeadingOn)
        /\ SumOn(1..6, LAMBDA l : markdown_counts.headings_by_level[l])
           = markdown_counts.heading_lines
        /\ markdown_counts.link_count = SumOn(Outside, LinksOn)
        /\ markdown_counts.image_count = SumOn(Outside, ImagesOn)
        /\ markdown_counts.table_count = SumOn(Outside, TableOn)

\* C21 witness: a file of three lines was analysed, a fence line that holds
\* a link and a bar, a heading and a closing fence: one block is counted and
\* nothing else
C21_Witness ==
    /\ analyzer = "markdown" /\ pc = "done"
    /\ Len(lines) = 3
    /\ IsFence(lines[1]) /\ CountLinks(lines[1], 1) = 1
    /\ HeadingLevel(lines[2]) = 1
    /\ IsFence(lines[3])
    /\ code_block_count = 1
    /\ ~in_fenced_code
    /\ markdown_counts = CountsStart

(***************************************************************************)
(* Claims on one GenericAnalyzer called on two files (SpecSequence).       *)
(***************************************************************************)
\* C23: the scanner is outside a comment and remembers no end marker at the
\* first line of every file, the first call and the next, and the FileStats
\* of a file analysed after another is the one the file has when analysed on
\* its own, whether the file before ended inside a comment or not.
C23_ScannerStartsInCode ==
    /\ (Scanned /\ history # <<>>) =>
          /\ ~history[1].before.in_multiline_comment
          /\ history[1].before.multiline_end_marker = <<>>
          /\ history[1].before.comment_lines = 0
    /\ (analyzer = "generic" /\ pc = "done" /\ earlier # <<>>) =>
          \E outcome \in ReadOutcomes :
             /\ count_lines(disk, outcome).failed = reads[1].failed
             /\ file_stats = Some(GenericAnalyze(file_path, disk, outcome))

\* C23 witness: the first file ended inside a comment that nothing closed;
\* the file ["x", "x*/"] analysed next has no comment line
C23_Witness ==
    /\ analyzer = "generic" /\ pc = "done"
    /\ Len(earlier) = 1
    /\ earlier[1].in_multiline_comment
    /\ earlier[1].multiline_end_marker = <<"*", "/">>
    /\ lines = << <<"x", "\n">>, <<"x", "*", "/", "\n">> >>
    /\ file_stats[1].comment_lines = 0
    /\ file_stats[1].code_lines = 2

\* the multi-line pairs whose start marker the line holds
PairsStartedOn(line) ==
    {pair \in MultiLinePairs(language) : Occurrences(line, pair.start) # {}}

\* C25: a non-blank line met outside a comment that holds the start marker
\* of the language enters the comment exactly if the end marker occurs
\* nowhere in the line, before the start marker or after it or across it;
\* when it occurs the line is counted once and a plain line of code after it
\* is not counted as a comment.
C25_CloseTestIgnoresPosition ==
    Scanned =>
        \A k \in 1..Len(history) :
            ( /\ ~history[k].before.in_multiline_comment
              /\ NonBlank(lines[k]) )
            => \A pair \in PairsStartedOn(lines[k]) :
                  LET ends == Occurrences(lines[k], pair.end) # {}
                  IN /\ CountedComment(k)
                     /\ history[k].after.in_multiline_comment = ~ends
                     /\ history[k].after.multiline_end_marker
                        = IF ends THEN <<>> ELSE pair.end
                     /\ (ends /\ k < Len(history) /\ PlainCode(lines[k + 1]))
                        => NotCounted(k + 1)

\* C25 witness: ["*/x/*", "x", "/*/", "x"] would need four lines; the files
\* ["*/x/*", "x"] and ["/*/", "x"] each end with one comment line, one line
\* of code and the scanner outside: here the first of them after the other
\* shape was met in the same file
C25_Witness ==
    /\ analyzer = "generic" /\ pc = "done" /\ language = "JavaScript"
    /\ Len(lines) = 3
    /\ lines[1] = <<"*", "/", "x", "/", "*", "\n">>
    /\ lines[2] = <<"/", "*", "/", "\n">>
    /\ PlainCode(lines[3])
    /\ ~history[1].after.in_multiline_comment
    /\ ~history[2].before.in_multiline_comment
    /\ ~history[2].after.in_multiline_comment
    /\ file_stats[1].comment_lines = 2
    /\ file_stats[1].code_lines = 1

\* C26: a non-blank line met outside a comment that starts with a
\* single-line marker and holds a multi-line start marker without its end
\* marker is counted once and enters the comment; the non-blank lines after
\* it are counted as comments up to and including the first that holds the
\* end marker.
C26_MultiLineTestedFirst ==
    Scanned =>
        \A k \in 1..Len(history) :
            ( /\ ~history[k].before.in_multiline_comment
              /\ \E t \in SingleLineTexts(language) : StartsWith(Strip(lines[k]), t)
              /\ \E pair \in PairsStartedOn(lines[k]) :
                    Occurrences(lines[k], pair.end) = {} )
            => /\ CountedComment(k)
               /\ history[k].after.in_multiline_comment
               /\ \A j \in (k + 1)..Len(history) :
                     ( /\ NonBlank(lines[j])
                       /\ \A i \in (k + 1)..(j - 1) :
                             \A pair \in PairsStartedOn(lines[k]) :
                                Occurrences(lines[i], pair.end) = {} )
                     => CountedComment(j)

\* C26 witness: ["//x/*", "x", "x*/"] in a JavaScript file: three comment
\* lines, the scanner inside after the first and outside after the third
C26_Witness ==
    /\ analyzer = "generic" /\ pc = "done" /\ language = "JavaScript"
    /\ lines = << <<"/", "/", "x", "/", "*", "\n">>, <<"x", "\n">>,
                  <<"x", "*", "/", "\n">> >>
    /\ history[1].after.in_multiline_comment
    /\ history[1].after.comment_lines = 1
    /\ ~history[3].after.in_multiline_comment
    /\ file_stats[1].comment_lines = 3
    /\ file_stats[1].code_lines = 0

\* C27: a whitespace-only line met inside a multi-line comment leaves the
\* comment count, the inside flag and the remembered end marker as they
\* were, and is one of the blank lines of the FileStats.
C27_BlankLineInsideComment ==
    Scanned =>
        /\ \A k \in 1..Len(history) :
              (history[k].before.in_multiline_comment /\ ~NonBlank(lines[k]))
              => history[k].after = history[k].before
        /\ blank_lines = Cardinality({k \in 1..Len(lines) : ~NonBlank(lines[k])})
        /\ (pc = "done" /\ file_stats # None)
           => /\ file_stats[1].blank_lines = blank_lines
              /\ file_stats[1].comment_lines
                 = Cardinality({k \in 1..Len(history) : CountedComment(k)})

\* C27 witness: ["/*x", " \t", "x*/"] in a JavaScript file: two comment
\* lines and one blank line, the scanner still inside after the blank line
C27_Witness ==
    /\ analyzer = "generic" /\ pc = "done" /\ language = "JavaScript"
    /\ lines = << <<"/", "*", "x", "\n">>, <<" ", "\t", "\n">>,
                  <<"x", "*", "/", "\n">> >>
    /\ history[2].before.in_multiline_comment
    /\ history[2].after.in_multiline_comment
    /\ history[2].after.multiline_end_marker = <<"*", "/">>
    /\ file_stats[1].comment_lines = 2
    /\ file_stats[1].blank_lines = 1
    /\ file_stats[1].code_lines = 0

(***************************************************************************)
(* Claims on the tree under construction (SpecBuild).                      *)
(***************************************************************************)
RECURSIVE Processed(_, _)
\* every entry of the directory, and of the directories below it that the
\* walk goes into, was come to: the directory was listed, each selected file
\* of a listing that was given was handed to _analyze_file, and each
\* directory that is not ignored was processed in the same way
Processed(entry, dir_path) ==
    /\ CallsOf(dir_path) = 1
    /\ env[dir_path].listing = "ok"
       => \A e \in entry.entries :
             LET item_path == Append(dir_path, e.name)
             IN /\ (e.kind = "file" /\ should_analyze_file(item_path, file_extensions))
                   => CallsOf(item_path) = 1
                /\ (e.kind = "dir" /\ ~should_ignore_dir(item_path, ignore_dirs))
                   => Processed(e, item_path)

RECURSIVE NodePathsIn(_)
\* the paths of the nodes attached below the node d
NodePathsIn(d) ==
    UNION { {d.subdirectories[i].path} \cup NodePathsIn(d.subdirectories[i]) :
              i \in 1..Len(d.subdirectories) }

\* the call of _analyze_directory at the top of the stack returns to the call
\* below it in this step
Returns == Len(stack) > 1 /\ Len(stack') = Len(stack) - 1

\* C22, the steps: whatever a node under construction has in its
\* subdirectories list stays there as it is, files and subdirectories, while
\* the node is under construction; the list grows only by one node at its
\* end, when the call on that node returns, every entry of it and of the
\* directories below it having been processed, and not if a node of that
\* path is in the list already.
C22_Step ==
    \A i \in 1..Len(stack) :
        i <= Len(stack')
        => LET before == stack[i].dir_stats.subdirectories
               after  == stack'[i].dir_stats.subdirectories
           IN \/ after = before
              \/ /\ Returns
                 /\ i = Len(stack')
                 /\ after = Append(before, stack[Len(stack)].dir_stats)
                 /\ Processed(stack[Len(stack)].entry, stack[Len(stack)].dir_path)
                 /\ stack[Len(stack)].next > Len(stack[Len(stack)].items[1])
                 /\ \A j \in 1..Len(before) :
                       before[j].path # stack[Len(stack)].dir_path

\* no node of a call still in progress is attached anywhere in the tree
\* under construction
NoPartialNodeAttached ==
    \A i, j \in 1..Len(stack) :
        stack[j].dir_path \notin NodePathsIn(stack[i].dir_stats)

\* C22: during the construction of the tree a subdirectory node is appended
\* to the subdirectories of its parent only once the call on it has returned,
\* all its entries and those below processed, at most once, and stays as it
\* is from then on until analyze() sorts and returns the tree; in no state is
\* the node of a call in progress attached to a parent.
C22_AttachedWhenComplete == [][C22_Step]_vars /\ []NoPartialNodeAttached

\* C22 witness: the walk of r/src/ext/a.js is back in the call on r; src is
\* attached to r with ext attached to it, and every path was come to once
C22_Witness ==
    /\ wpc = "walking" /\ Len(stack) = 1
    /\ Len(Top.dir_stats.subdirectories) = 1
    /\ Top.dir_stats.subdirectories[1].path = <<root.name, <<"s", "r", "c">>>>
    /\ Len(Top.dir_stats.subdirectories[1].subdirectories) = 1
    /\ Len(Top.dir_stats.subdirectories[1].subdirectories[1].files) = 1
    /\ \A p \in DOMAIN calls : calls[p] = 1
    /\ Cardinality(DOMAIN calls) = 4

(***************************************************************************)
(* Claims on the walk run to its end (FairBuild).                          *)
(***************************************************************************)
\* C24: when the root exists and is a directory, analyze() comes to return a
\* root node, each directory that is not ignored having been listed exactly
\* once and each selected file analysed exactly once.
C24_AnalyzeReturns ==
    (root.kind = "dir")
    => <>( /\ wpc = "returned"
           /\ result # None
           /\ Processed(root, <<root.name>>)
           /\ \A p \in DOMAIN calls : calls[p] = 1 )

(***************************************************************************)
(* Claims on the trees analyze() builds (SpecBuild).                       *)
(***************************************************************************)
\* the paths whose suffix a MarkdownAnalyzer supports
IsMarkdown(p) == Lower(Suffix(Name(p))) \in MarkdownExtensions

\* C28: no file of suffix .md or .markdown is in a tree analyze() builds or
\* returns, whether file_extensions is None or a set that holds the suffix:
\* no registered analyzer is found for it, analyze() of no analyzer is called
\* on it and _analyze_file returns None.
C28_NoMarkdownInTree ==
    /\ \A p \in FilesNow : ~IsMarkdown(p)
    /\ \A p \in handed : ~IsMarkdown(p)
    /\ \A p \in DOMAIN env :
          (IsMarkdown(p) /\ "returned" \in DOMAIN env[p]) => env[p].returned = None
    /\ \A k \in 1..Len(Analyzers) :
          Analyzers[k].supported_extensions \cap MarkdownExtensions = {}

\* C28 witness: file_extensions holds .md and .markdown and the root holds
\* a.js, c.md and d.markdown; c.md and d.markdown were selected and given to
\* _analyze_file, and the tree returned holds a.js alone
C28_Witness ==
    /\ wpc = "returned"
    /\ file_extensions # None
    /\ MarkdownExtensions \subseteq file_extensions[1]
    /\ \A name \in {<<"c", ".", "m", "d">>,
                     <<"d", ".", "m", "a", "r", "k", "d", "o", "w", "n">>} :
          /\ should_analyze_file(<<root.name, name>>, file_extensions)
          /\ CallsOf(<<root.name, name>>) = 1
    /\ Len(result[1].files) = 1
    /\ result[1].files[1].path = <<root.name, <<"a", ".", "j", "s">>>>
    /\ total_files(result[1]) = 1

\* the files _analyze_file returned a FileStats without lines for: those
\* that could not be read, and the empty ones
ZeroLineFiles ==
    {p \in DOMAIN env :
        /\ "returned" \in DOMAIN env[p]
        /\ env[p].returned # None
        /\ env[p].returned[1].total_lines = 0}

\* the four counts of the FileStats are 0
NoCounts(f) ==
    /\ f.total_lines = 0 /\ f.code_lines = 0
    /\ f.comment_lines = 0 /\ f.blank_lines = 0

RECURSIVE CountsInAndAbove(_, _)
\* the file of path p is in the files list of the node below d whose path is
\* the directory of p, that node is reached from d through attached nodes,
\* and p is one of the files total_files counts at d and at each node on the
\* way: without p the count would be one less
CountsInAndAbove(d, p) ==
    /\ p \in FilePathsIn(d)
    /\ total_files(d) = 1 + Cardinality(FilePathsIn(d) \ {p})
    /\ IF Len(p) = Len(d.path) + 1
       THEN \E i \in 1..Len(d.files) : d.files[i].path = p
       ELSE \E j \in 1..Len(d.subdirectories) :
               /\ d.subdirectories[j].path = SubSeq(p, 1, Len(d.path) + 1)
               /\ CountsInAndAbove(d.subdirectories[j], p)

\* C29: a selected file that could not be read gets a FileStats whose four
\* counts are 0 (so it would if it were empty); the FileStats is in the files list
\* of the node of its directory as soon as it is made, and in the tree
\* returned it counts 1 in total_files of that node and of every node above,
\* which are all attached: a subdirectory that holds no other analysed file
\* is not left out.
C29_ZeroLineFileIsKept ==
    /\ \A p \in ZeroLineFiles :
          LET f == env[p].returned[1]
          IN /\ f.path = p
             /\ NoCounts(f)
             /\ p \in FilesNow
             /\ wpc = "returned" => CountsInAndAbove(result[1], p)
             /\ \A x \in analyze_file(p, <<>>) \ {None} : NoCounts(x[1])

\* C29 witness: r/src holds a.js alone and a.js could not be read: the tree
\* returned has src attached to r with the FileStats of a.js, all counts 0,
\* and total_files is 1 at src and at r
C29_Witness ==
    /\ wpc = "returned"
    /\ ZeroLineFiles = {<<root.name, <<"s", "r", "c">>, <<"a", ".", "j", "s">>>>}
    /\ Cardinality(DOMAIN calls) = 3
    /\ result[1].files = <<>>
    /\ Len(result[1].subdirectories) = 1
    /\ result[1].subdirectories[1].path = <<root.name, <<"s", "r", "c">>>>
    /\ Len(result[1].subdirectories[1].files) = 1
    /\ result[1].subdirectories[1].files[1].total_lines = 0
    /\ result[1].subdirectories[1].files[1].code_lines = 0
    /\ total_files(result[1].subdirectories[1]) = 1
    /\ total_files(result[1]) = 1

\* the files _analyze_file returned a FileStats for: they passed the filters
\* and analyze() of their analyzer did not raise
Analysed ==
    {p \in DOMAIN env : "returned" \in DOMAIN env[p] /\ env[p].returned # None}

RECURSIVE FileOccurrences(_, _)
\* how many entries of the files lists of the tree d have the path p
FileOccurrences(d, p) ==
    Cardinality({i \in 1..Len(d.files) : d.files[i].path = p})
    + SumSeq([j \in 1..Len(d.subdirectories) |->
                 FileOccurrences(d.subdirectories[j], p)])

RECURSIVE NodeCount(_)
\* how many nodes the tree d has below its root
NodeCount(d) ==
    Len(d.subdirectories)
    + SumSeq([j \in 1..Len(d.subdirectories) |-> NodeCount(d.subdirectories[j])])

RECURSIVE InOwnDirectory(_)
\* every file of the tree d is in the files list of the node of its
\* directory, and every node in the subdirectories of the node of its parent
InOwnDirectory(d) ==
    /\ \A i \in 1..Len(d.files) : d.files[i].path = Append(d.path, Name(d.files[i].path))
    /\ \A j \in 1..Len(d.subdirectories) :
          /\ d.subdirectories[j].path = Append(d.path, Name(d.subdirectories[j].path))
          /\ InOwnDirectory(d.subdirectories[j])

\* C30: in the tree analyze() returns each analysed file is in one files
\* list, once, that of the node of its directory; no two nodes have the same
\* path and none has the path of the root; the files of the tree are the
\* analysed files, and total_files of the root is their number.
C30_EachFileOnce ==
    wpc = "returned"
    => LET d == result[1]
       IN /\ \A p \in Analysed : FileOccurrences(d, p) = 1
          /\ FilePathsIn(d) = Analysed
          /\ InOwnDirectory(d)
          /\ d.path = <<root.name>>
          /\ Cardinality(NodePathsIn(d)) = NodeCount(d)
          /\ d.path \notin NodePathsIn(d)
          /\ total_files(d) = Cardinality(Analysed)

\* C30 witness: r holds ext and src and each holds a.js, as when ext is a
\* symbolic link to src: the tree returned has a node for each path, each
\* with its one file, and total_files is 2
C30_Witness ==
    /\ wpc = "returned"
    /\ Analysed = { <<root.name, <<"e", "x", "t">>, <<"a", ".", "j", "s">>>>,
                    <<root.name, <<"s", "r", "c">>, <<"a", ".", "j", "s">>>> }
    /\ result[1].files = <<>>
    /\ Len(result[1].subdirectories) = 2
    /\ result[1].subdirectories[1].path = <<root.name, <<"e", "x", "t">>>>
    /\ result[1].subdirectories[2].path = <<root.name, <<"s", "r", "c">>>>
    /\ Len(result[1].subdirectories[1].files) = 1
    /\ Len(result[1].subdirectories[2].files) = 1
    /\ result[1].subdirectories[1].files[1].path
       = <<root.name, <<"e", "x", "t">>, <<"a", ".", "j", "s">>>>
    /\ result[1].subdirectories[2].files[1].path
       = <<root.name, <<"s", "r", "c">>, <<"a", ".", "j", "s">>>>
    /\ total_files(result[1]) = 2

====
